---------------------------- MODULE Spec2Model ----------------------------
(***************************************************************************)
(* A model of the 10-K indexing pipeline: the structural parser            *)
(* (index/parser/parser.py) and the chunker (index/chunker/chunker.py,     *)
(* index/chunker/chunk_accumulator.py).                                    *)
(*                                                                         *)
(* Texts are modelled by what str.split() sees of them: a text is the      *)
(* sequence of its whitespace-separated words, and a chunk's content is    *)
(* the sequence of the parts that "\n\n".join() glues together.  A word is *)
(* a pair <<k, j>>: the j-th word of the text of the k-th node (j < 0 for  *)
(* the words of min_text), so that every word of a document is distinct.   *)
(* An Optional value is None (the empty tuple) or Some(v) (a 1-tuple).     *)
(***************************************************************************)
EXTENDS Integers, Sequences, FiniteSets, TLC

VARIABLES
    pc,              \* position of the running pipeline
    nodes,           \* the structural node stream: the parser's result, the chunker's input
    \* TenKChunker.get_chunks
    chunking_config, \* the ItemChunkingConfig every item is mapped to
    views,           \* ItemViews still to be chunked (SemanticDocument iteration)
    chunks,          \* the chunks list
    warnings,        \* structural_node_ids logger.warning was called for
    \* TenKParser._element_to_structural_nodes on one element
    element,         \* the element handed in
    node_type,       \* what _classify_element returned or raised for it
    extracted,       \* the nodes returned for it
    \* TenKParser.get_structured_nodes_stream
    soup,            \* the sibling elements the items lie in (the children of body)
    toc_items,       \* the ItemTOCElements of _get_toc_items
    item_index,      \* _get_structured_nodes: position of its loop over toc_items
    current_element, \* _get_structured_nodes: current_element, a position in soup
    raw_nodes,       \* _get_structured_nodes: the nodes list
    \* TableNode.__post_init__
    html_table,      \* the <table> element: its rows of cells
    dataframe,       \* what parse_html_table returns for it
    merged_dataframe, \* what merge_dataframe_columns makes of that
    table_metadata,  \* the TableMetadata of TableForEmbedding
    \* TenKParser._get_toc_items
    document,        \* the document the table of contents is searched in
    toc_table,       \* what _find_toc_table returns
    toc_links,       \* toc_table.find_all("a")
    \* index_graph.chunk
    sec_filings,     \* configuration.sec_filings
    state_docs,      \* state.docs
    all_docs,        \* the all_docs list
    filing_index,    \* position of the loop over sec_filings
    returned_docs    \* the docs of the dict returned

chunker_vars == <<chunking_config, views, chunks, warnings>>

classifier_vars == <<element, node_type, extracted>>

parser_vars == <<soup, toc_items, item_index, current_element, raw_nodes>>

table_vars == <<html_table, dataframe, merged_dataframe, table_metadata>>

toc_vars == <<document, toc_table, toc_links>>

graph_vars == <<sec_filings, state_docs, all_docs, filing_index, returned_docs>>

other_vars == <<table_vars, toc_vars, graph_vars>>

vars == <<pc, nodes, chunker_vars, classifier_vars, parser_vars, other_vars>>

-----------------------------------------------------------------------------
(* Bounds of the model *)

MaxNodes == 3

-----------------------------------------------------------------------------
(* Generic helpers *)

None == <<>>

Some(v) == <<v>>

Range(s) == {s[i] : i \in DOMAIN s}

RECURSIVE Flatten(_)
Flatten(ss) == IF ss = <<>> THEN <<>> ELSE Head(ss) \o Flatten(Tail(ss))

RECURSIVE SumSeq(_)
SumSeq(s) == IF s = <<>> THEN 0 ELSE Head(s) + SumSeq(Tail(s))

\* list(dict.fromkeys(xs)): duplicates dropped, first occurrence kept
RECURSIVE dict_fromkeys(_)
dict_fromkeys(xs) ==
    IF xs = <<>> THEN <<>>
    ELSE LET init == SubSeq(xs, 1, Len(xs) - 1)
             last == xs[Len(xs)]
         IN  IF last \in Range(init) THEN dict_fromkeys(init)
             ELSE Append(dict_fromkeys(init), last)

-----------------------------------------------------------------------------
(* index/chunker/types.py *)

\* DEFAULT_ITEM_CHUNKING_CONFIG
DEFAULT_MIN_CHUNK_SIZE_WORDS == 100

DEFAULT_MAX_CHUNK_SIZE_WORDS == 500

DEFAULT_CHUNK_OVERLAP_WORDS == 50

DEFAULT_ITEM_CHUNKING_CONFIG ==
    [min_chunk_size_words |-> DEFAULT_MIN_CHUNK_SIZE_WORDS,
     max_chunk_size_words |-> DEFAULT_MAX_CHUNK_SIZE_WORDS,
     chunk_overlap_words  |-> DEFAULT_CHUNK_OVERLAP_WORDS]

-----------------------------------------------------------------------------
(* index/chunker/chunk_accumulator.py: ChunkAccumulator *)

\* ChunkAccumulator.__init__
NewAccumulator(config) ==
    [config |-> config,
     current_nodes |-> <<>>,
     budget |-> config.max_chunk_size_words,
     before_overlap_accumulator |-> None,
     after_overlap_accumulator |-> None,
     current_content_size |-> 0]

\* len(node_text.split())
get_node_size(node) == Len(node.text)

\* mutant: the budget test forgets what the accumulator already holds
can_add_ignoring_content(acc, node) ==
    get_node_size(node) <= acc.budget

\* mutant: a node that would fill the budget exactly is refused
can_add_strictly_below(acc, node) ==
    acc.current_content_size + get_node_size(node) < acc.budget

\* mutant: an accumulator below min_chunk_size_words takes any node
can_add_below_min(acc, node) ==
    \/ acc.current_content_size < acc.config.min_chunk_size_words
    \/ acc.current_content_size + get_node_size(node) <= acc.budget

can_add(acc, node) ==
    acc.current_content_size + get_node_size(node) <= acc.budget

add_node(acc, node) ==
    [acc EXCEPT !.current_nodes = Append(@, node),
                !.current_content_size = @ + get_node_size(node)]

\* ChunkAccumulator.add: <<returned flag, accumulator afterwards>>
add(acc, node) ==
    IF ~can_add(acc, node) THEN <<FALSE, acc>> ELSE <<TRUE, add_node(acc, node)>>

\* hasattr(node, 'min_text'): TableNode and ImageNode declare it, TextNode does not
has_min_text(node) == node.node_type \in {"table", "image"}

\* [node.text.strip() for node in current_nodes if node.text.strip()]
all_text(acc) ==
    LET texts == [i \in DOMAIN acc.current_nodes |-> acc.current_nodes[i].text]
    IN  SelectSeq(texts, LAMBDA t : t # <<>>)

\* "\n\n".join(all_text).split()
combined_words(acc) == Flatten(all_text(acc))

\* words[:word_count] if len(words) > word_count else words
start_words(words, word_count) ==
    IF Len(words) > word_count THEN SubSeq(words, 1, word_count) ELSE words

\* mutant: the before-overlap is cut from the front of the words
end_words_from_front(words, word_count) ==
    IF Len(words) > word_count THEN SubSeq(words, 1, word_count) ELSE words

\* words[-word_count:] if len(words) > word_count else words; words[-0:] is
\* the whole list
end_words(words, word_count) ==
    IF Len(words) > word_count /\ word_count > 0
    THEN SubSeq(words, Len(words) - word_count + 1, Len(words))
    ELSE words

get_start(acc, word_count) ==
    IF acc.current_nodes = <<>> THEN <<>>
    ELSE LET first_node == acc.current_nodes[1]
         IN  IF first_node.node_type \in {"table", "image"} /\ has_min_text(first_node)
             THEN first_node.min_text
             ELSE IF all_text(acc) = <<>> THEN <<>>
             ELSE start_words(combined_words(acc), word_count)

get_end(acc, word_count) ==
    IF acc.current_nodes = <<>> THEN <<>>
    ELSE LET last_node == acc.current_nodes[Len(acc.current_nodes)]
         IN  IF last_node.node_type \in {"table", "image"} /\ has_min_text(last_node)
             THEN last_node.min_text
             ELSE IF all_text(acc) = <<>> THEN <<>>
             ELSE end_words(combined_words(acc), word_count)

\* The accumulator an overlap link points to: links are positions in the
\* item's accumulator list.
Linked(accumulators, link) == accumulators[link[1]]

\* content_parts, the list "\n\n".join() is applied to
collect_content(accumulators, i) ==
    LET self == accumulators[i]
        before_part ==
            IF self.before_overlap_accumulator # None
            THEN LET overlap_content ==
                         get_end(Linked(accumulators, self.before_overlap_accumulator),
                                 self.config.chunk_overlap_words)
                 IN  IF overlap_content # <<>> THEN <<overlap_content>> ELSE <<>>
            ELSE <<>>
        after_part ==
            IF self.after_overlap_accumulator # None
            THEN LET overlap_content ==
                         get_start(Linked(accumulators, self.after_overlap_accumulator),
                                   self.config.chunk_overlap_words)
                 IN  IF overlap_content # <<>> THEN <<overlap_content>> ELSE <<>>
            ELSE <<>>
    IN  before_part \o all_text(self) \o after_part

\* the structural_node_ids of the nodes of one type, in list order
refs_of_type(node_list, type) ==
    LET of_type == SelectSeq(node_list, LAMBDA n : n.node_type = type)
    IN  [k \in DOMAIN of_type |-> of_type[k].metadata.structural_node_id]

\* mutant: references are collected from every accumulator of the item
reference_scan_whole_item(accumulators, i) ==
    Flatten([k \in DOMAIN accumulators |-> accumulators[k].current_nodes])

\* mutant: references are collected from the accumulator's own nodes only
reference_scan_own_nodes(accumulators, i) ==
    accumulators[i].current_nodes

\* the nodes _collect_references scans: its own, then those of the linked
\* accumulators, before first
reference_scan(accumulators, i) ==
    LET self == accumulators[i]
        of(link) == IF link # None THEN Linked(accumulators, link).current_nodes ELSE <<>>
    IN  self.current_nodes \o of(self.before_overlap_accumulator)
                           \o of(self.after_overlap_accumulator)

\* <<table_refs, image_refs>>
collect_references(accumulators, i) ==
    <<dict_fromkeys(refs_of_type(reference_scan(accumulators, i), "table")),
      dict_fromkeys(refs_of_type(reference_scan(accumulators, i), "image"))>>

collect_structural_node_ids(acc) ==
    [k \in DOMAIN acc.current_nodes |-> acc.current_nodes[k].metadata.structural_node_id]

\* str(n): the decimal digits of n
RECURSIVE str(_)
str(n) == IF n < 10 THEN <<n>> ELSE Append(str(n \div 10), n % 10)

\* int(s): the number a digit string denotes
RECURSIVE int(_)
int(s) == IF s = <<>> THEN 0 ELSE 10 * int(SubSeq(s, 1, Len(s) - 1)) + s[Len(s)]

\* bool(page_number) of an Optional[int]: None and 0 are falsy
truthy(page_number) == page_number # None /\ page_number[1] # 0

\* sorted(page_numbers, key=int) of a set of digit strings
RECURSIVE sorted_key_int(_)
sorted_key_int(S) ==
    IF S = {} THEN <<>>
    ELSE LET least == CHOOSE x \in S : \A y \in S : int(x) <= int(y)
         IN  <<least>> \o sorted_key_int(S \ {least})

\* <<page_numbers list, page_range>>
collect_page_info(acc) ==
    LET page_numbers ==
            {str(n.metadata.page_number[1]) :
                n \in {m \in Range(acc.current_nodes) : truthy(m.metadata.page_number)}}
        sorted_pages == sorted_key_int(page_numbers)
        page_range ==
            IF page_numbers # {}
            THEN Some(<<sorted_pages[1], sorted_pages[Len(sorted_pages)]>>)
            ELSE None
    IN  <<IF page_numbers # {} THEN sorted_key_int(page_numbers) ELSE <<>>, page_range>>

\* x if x else None
or_none(x) == IF x # <<>> THEN Some(x) ELSE None

\* ChunkAccumulator.to_chunk of accumulators[i]; "raise" when it is empty
to_chunk(accumulators, i) ==
    LET self == accumulators[i]
    IN  IF self.current_nodes = <<>> THEN "ValueError"
        ELSE LET refs == collect_references(accumulators, i)
                 page_info == collect_page_info(self)
                 first_node_metadata == self.current_nodes[1].metadata
             IN  [content |-> collect_content(accumulators, i),
                  metadata |->
                     [item |-> first_node_metadata.parent_item,
                      page_numbers |-> or_none(page_info[1]),
                      page_range |-> page_info[2],
                      table_references |-> or_none(refs[1]),
                      image_references |-> or_none(refs[2]),
                      order |-> None,
                      structural_node_ids |-> collect_structural_node_ids(self)]]

-----------------------------------------------------------------------------
(* index/parser/types.py: SemanticDocument *)

NoItem == "None"

\* SemanticDocument.__iter__: the ItemViews yielded, in order.  current_item
\* and bucket are the generator's locals.
RECURSIVE iter_items(_, _, _)
iter_items(node_list, current_item, bucket) ==
    IF node_list = <<>>
    THEN IF current_item # NoItem THEN <<[item |-> current_item, nodes |-> bucket]>> ELSE <<>>
    ELSE LET node == Head(node_list)
             item == node.metadata.parent_item
         IN  IF item # current_item
             THEN (IF current_item # NoItem
                   THEN <<[item |-> current_item, nodes |-> bucket]>>
                   ELSE <<>>)
                  \o iter_items(Tail(node_list), item, <<node>>)
             ELSE iter_items(Tail(node_list), current_item, Append(bucket, node))

\* an iteration without the final "if current_item is not None: yield": the
\* bucket of the last run is never yielded
iter_without_last(node_list) ==
    LET all == iter_items(node_list, NoItem, <<>>)
    IN  IF all = <<>> THEN all ELSE SubSeq(all, 1, Len(all) - 1)

SemanticDocument(node_list) == iter_items(node_list, NoItem, <<>>)

-----------------------------------------------------------------------------
(* index/chunker/chunker.py: TenKChunker *)

ItemNames ==
    {"Item 1", "Item 1A", "Item 1B", "Item 1C", "Item 2", "Item 3", "Item 4",
     "Item 5", "Item 6", "Item 7", "Item 7A", "Item 8", "Item 9", "Item 9A",
     "Item 9B", "Item 9C", "Item 10", "Item 11", "Item 12", "Item 13",
     "Item 14", "Item 15", "Item 16"}

\* ITEMS_CHUNKING_CONFIGS.get(item): every key maps to one and the same config
ITEMS_CHUNKING_CONFIGS_get(item, config) ==
    IF item \in ItemNames THEN Some(config) ELSE None

\* mutant: the oversized node is dropped
split_node_dropped(node, config) == <<>>

\* _split_node_to_multiple_accumulators: the accumulators returned
split_node_to_multiple_accumulators(node, config) ==
    <<add_node(NewAccumulator(config), node)>>

\* One pass of the loop "for node in item.nodes" of
\* _merge_structural_nodes_into_chunks; st holds the locals accumulators and
\* current_accumulator and the warnings logged.
merge_step(st, node, config) ==
    IF node.node_type \in {"page_footer", "non_content"} THEN st
    ELSE IF add(st.current_accumulator, node)[1]
    THEN [st EXCEPT !.current_accumulator = add(st.current_accumulator, node)[2]]
    ELSE LET finalize == st.current_accumulator.current_nodes # <<>>
             accumulators1 == IF finalize
                              THEN Append(st.accumulators, st.current_accumulator)
                              ELSE st.accumulators
             current1 == IF finalize THEN NewAccumulator(config)
                         ELSE st.current_accumulator
         IN  IF add(current1, node)[1]
             THEN [st EXCEPT !.accumulators = accumulators1,
                             !.current_accumulator = add(current1, node)[2]]
             ELSE [st EXCEPT !.accumulators =
                                 accumulators1 \o
                                 split_node_to_multiple_accumulators(node, config),
                             !.current_accumulator = current1,
                             !.warnings = Append(@, node.metadata.structural_node_id)]

RECURSIVE merge_loop(_, _, _)
merge_loop(st, node_list, config) ==
    IF node_list = <<>> THEN st
    ELSE merge_loop(merge_step(st, Head(node_list), config), Tail(node_list), config)

\* mutant: the accumulator still open after the loop is not added
final_accumulator_forgotten(st) == st.accumulators

\* "Add final accumulator if it has content"
final_accumulators(st) ==
    IF st.current_accumulator.current_nodes # <<>>
    THEN Append(st.accumulators, st.current_accumulator)
    ELSE st.accumulators

\* accumulators linked to their neighbours whatever chunk_overlap_words is
set_overlaps_always(accumulators, config) ==
    [i \in DOMAIN accumulators |->
        [accumulators[i] EXCEPT
            !.before_overlap_accumulator = IF i > 1 THEN Some(i - 1) ELSE @,
            !.after_overlap_accumulator =
                IF i < Len(accumulators) THEN Some(i + 1) ELSE @]]

\* "Set up overlap relationships between accumulators"
set_overlaps(accumulators, config) ==
    [i \in DOMAIN accumulators |->
        [accumulators[i] EXCEPT
            !.before_overlap_accumulator =
                IF i > 1 /\ config.chunk_overlap_words > 0 THEN Some(i - 1) ELSE @,
            !.after_overlap_accumulator =
                IF i < Len(accumulators) /\ config.chunk_overlap_words > 0
                THEN Some(i + 1) ELSE @]]

\* The accumulators of one item, linked
item_accumulators(item, config) ==
    set_overlaps(
        final_accumulators(
            merge_loop([accumulators |-> <<>>,
                        current_accumulator |-> NewAccumulator(config),
                        warnings |-> <<>>],
                       item.nodes, config)),
        config)

\* the warnings logged while the accumulators of one item are built
item_warnings(item, config) ==
    merge_loop([accumulators |-> <<>>,
                current_accumulator |-> NewAccumulator(config),
                warnings |-> <<>>],
               item.nodes, config).warnings

\* _merge_structural_nodes_into_chunks: [chunks, warnings]
merge_structural_nodes_into_chunks(item, config) ==
    IF item.nodes = <<>> THEN [chunks |-> <<>>, warnings |-> <<>>]
    ELSE LET item_config == ITEMS_CHUNKING_CONFIGS_get(item.item, config)
         IN  IF item_config = None THEN [chunks |-> <<>>, warnings |-> <<>>]
             ELSE LET accumulators == item_accumulators(item, item_config[1])
                  IN  [chunks |-> [i \in DOMAIN accumulators |-> to_chunk(accumulators, i)],
                       warnings |-> item_warnings(item, item_config[1])]

\* mutant: an item's chunks are put in front of the earlier items' chunks
extend_in_front(chunk_list, item_chunks) == item_chunks \o chunk_list

\* chunks.extend(item_chunks)
extend(chunk_list, item_chunks) == chunk_list \o item_chunks

\* for i, chunk in enumerate(chunks): chunk.metadata.order = i
set_global_order(chunk_list) ==
    [i \in DOMAIN chunk_list |->
        [chunk_list[i] EXCEPT !.metadata.order = Some(i - 1)]]

-----------------------------------------------------------------------------
(* The chunker as a state machine: TenKChunker.get_chunks *)

\* The k-th node of a parsed stream (TextNode, TableNode or ImageNode after
\* get_structured_nodes_stream): its text has size words.
StructuralNode(k, type, size, item, page) ==
    [node_type |-> type,
     text |-> [j \in 1..size |-> <<k, j>>],
     min_text |-> IF type \in {"table", "image"}
                  THEN <<<<k, -1>>, <<k, -2>>, <<k, -3>>>> ELSE <<>>,
     metadata |-> [structural_node_id |-> <<type, k>>,
                   parent_item |-> item,
                   page_number |-> page,
                   structural_order |-> Some(k - 1)]]

ContentTypes == {"text", "table", "image"}

\* Word counts of a node's text: with a budget of 2 words a node of 1 word
\* shares a chunk, one of 2 fills it and one of 3 is oversized.
WordCounts == 0..3

\* A TextNode has words (extract_text is not None) and so has an ImageNode
\* (its text names its id); a table without lookup entries has an empty text.
NodeShapes ==
    {sh \in ContentTypes \X WordCounts : sh[1] = "table" \/ sh[2] >= 1}

\* The two items of the modelled filings, in TOC order
FirstItem == "Item 1"

SecondItem == "Item 1A"

ItemChunkingConfig(max, overlap) ==
    [min_chunk_size_words |-> 1,
     max_chunk_size_words |-> max,
     chunk_overlap_words  |-> overlap]

\* Budgets and overlaps the streams are chunked under: no overlap, or an
\* overlap of 2 words (shorter than min_text, and than an oversized text)
Configs == {ItemChunkingConfig(2, overlap) : overlap \in {0, 2}}

\* A stream of n nodes: the first split of them belong to FirstItem, the rest
\* to SecondItem; structural_order is the position, as the parser leaves it.
Stream(n, shapes, split, pages) ==
    [k \in 1..n |->
        StructuralNode(k, shapes[k][1], shapes[k][2],
                       IF k <= split THEN FirstItem ELSE SecondItem, pages[k])]

\* the table, table-of-contents and index-graph variables while these do not run
OthersIdle ==
    /\ html_table = <<>>
    /\ dataframe = <<>>
    /\ merged_dataframe = <<>>
    /\ table_metadata = <<>>
    /\ document = <<>>
    /\ toc_table = <<>>
    /\ toc_links = <<>>
    /\ sec_filings = <<>>
    /\ state_docs = <<>>
    /\ all_docs = <<>>
    /\ filing_index = 0
    /\ returned_docs = <<>>

\* the parser's variables while only the chunker runs
ParserIdle ==
    /\ element = None
    /\ node_type = None
    /\ extracted = <<>>
    /\ soup = <<>>
    /\ toc_items = <<>>
    /\ item_index = 0
    /\ current_element = None
    /\ raw_nodes = <<>>
    /\ OthersIdle

InitChunker ==
    /\ pc = "start"
    /\ views = <<>>
    /\ chunks = <<>>
    /\ warnings = <<>>
    /\ ParserIdle

\* Streams of up to MaxNodes nodes of every shape, without page numbers
Init ==
    /\ InitChunker
    /\ chunking_config \in Configs
    /\ \E n \in 0..MaxNodes :
          \E shapes \in [1..n -> NodeShapes], split \in 0..n :
             nodes = Stream(n, shapes, split, [k \in 1..n |-> None])

\* Page numbers a footer can give a node: none, page 0, and pages whose
\* decimal strings sort differently from the numbers ("10" < "2")
PageNumbers == {None, Some(0), Some(2), Some(10)}

\* Streams of one-word text nodes (two to a chunk) with every page numbering
InitPages ==
    /\ InitChunker
    /\ chunking_config \in Configs
    /\ \E n \in 0..MaxNodes :
          \E pages \in [1..n -> PageNumbers], split \in 0..n :
             nodes = Stream(n, [k \in 1..n |-> <<"text", 1>>], split, pages)

\* Largest word count of the table X of scenario T4 that is tried below the
\* oversized one
T4MaxTableWords == 120

\* Scenario T4: [TextA of 400 words, TableNode X, TextB of 400 words] in one
\* item under the default configuration, for tables X of every word count up to
\* T4MaxTableWords and for an oversized X
InitT4 ==
    /\ InitChunker
    /\ chunking_config = DEFAULT_ITEM_CHUNKING_CONFIG
    /\ \E x \in (0..T4MaxTableWords) \cup {DEFAULT_MAX_CHUNK_SIZE_WORDS + 1} :
          nodes = Stream(3, <<<<"text", 400>>, <<"table", x>>, <<"text", 400>>>>,
                         3, [k \in 1..3 |-> None])

\* semantic_document = parser.get_semantic_document(nodes)
GetSemanticDocument ==
    /\ pc = "start"
    /\ views' = SemanticDocument(nodes)
    /\ pc' = "items"
    /\ UNCHANGED <<chunking_config, nodes, chunks, warnings, classifier_vars, parser_vars, other_vars>>

\* One pass of "for item in semantic_document"
ChunkItem ==
    /\ pc = "items"
    /\ views # <<>>
    /\ LET merged == merge_structural_nodes_into_chunks(Head(views), chunking_config)
       IN  /\ chunks' = extend(chunks, merged.chunks)
           /\ warnings' = warnings \o merged.warnings
    /\ views' = Tail(views)
    /\ UNCHANGED <<pc, chunking_config, nodes, classifier_vars, parser_vars, other_vars>>

\* "Set global order for all chunks", and return
SetGlobalOrder ==
    /\ pc = "items"
    /\ views = <<>>
    /\ chunks' = set_global_order(chunks)
    /\ pc' = "done"
    /\ UNCHANGED <<chunking_config, nodes, views, warnings, classifier_vars, parser_vars, other_vars>>

Next == GetSemanticDocument \/ ChunkItem \/ SetGlobalOrder

Spec == Init /\ [][Next]_vars

SpecPages == InitPages /\ [][Next]_vars

SpecT4 == InitT4 /\ [][Next]_vars

-----------------------------------------------------------------------------
(* Vocabulary of the properties: what a chunk holds, read from the chunk's   *)
(* metadata and the node stream, not from the accumulators.                  *)

Max(S) == CHOOSE x \in S : \A y \in S : y <= x

Min(S) == CHOOSE x \in S : \A y \in S : x <= y

NodeOf(id) == CHOOSE n \in Range(nodes) : n.metadata.structural_node_id = id

\* the nodes a chunk contains, in the chunk's order
Contained(c) ==
    [k \in DOMAIN c.metadata.structural_node_ids |->
        NodeOf(c.metadata.structural_node_ids[k])]

WordCount(node) == Len(node.text)

\* core size: the words of the contained nodes, overlaps excluded
CoreSize(c) == SumSeq([k \in DOMAIN Contained(c) |-> WordCount(Contained(c)[k])])

Budget == chunking_config.max_chunk_size_words

Overlap == chunking_config.chunk_overlap_words

Oversized(node) == WordCount(node) > Budget

\* the items of an Optional list
Listed(opt) == IF opt = None THEN {} ELSE Range(opt[1])

\* chunks i and j are neighbours within one item
SameItem(i, j) ==
    /\ i \in DOMAIN chunks
    /\ j \in DOMAIN chunks
    /\ chunks[i].metadata.item = chunks[j].metadata.item

IdsOf(i) == Range(chunks[i].metadata.structural_node_ids)

IsMedia(node) == node.node_type \in {"table", "image"}

\* the references of a chunk that belong to nodes of the given type
References(c, type) ==
    IF type = "table" THEN Listed(c.metadata.table_references)
    ELSE Listed(c.metadata.image_references)

-----------------------------------------------------------------------------
\* C1: every chunk's core size (the words of its contained nodes, overlaps
\* excluded) is at most max_chunk_size_words, unless the chunk contains exactly
\* one node and that node alone exceeds max_chunk_size_words.
C1_CoreBudget ==
    \A i \in DOMAIN chunks :
        \/ CoreSize(chunks[i]) <= Budget
        \/ /\ Len(chunks[i].metadata.structural_node_ids) = 1
           /\ Oversized(Contained(chunks[i])[1])

\* A chunk of two nodes that fills the budget exactly, next to an oversized one
C1_Witness ==
    /\ \E i \in DOMAIN chunks :
          /\ Len(chunks[i].metadata.structural_node_ids) >= 2
          /\ CoreSize(chunks[i]) = Budget
    /\ \E i \in DOMAIN chunks : CoreSize(chunks[i]) > Budget

\* C2: a node whose own word count exceeds max_chunk_size_words is emitted
\* whole as the only node of one chunk, every node before it lies in an earlier
\* chunk and every node after it in a later one, and a warning is logged for it.
C2_OversizedEmitted ==
    pc = "done" =>
        \A n \in Range(nodes) :
            Oversized(n) =>
                /\ \E i \in DOMAIN chunks :
                      /\ chunks[i].metadata.structural_node_ids
                            = <<n.metadata.structural_node_id>>
                      /\ n.text \in Range(chunks[i].content)
                      /\ \A j \in DOMAIN chunks : \A id \in IdsOf(j) :
                            /\ NodeOf(id).metadata.structural_order[1]
                                  < n.metadata.structural_order[1] => j < i
                            /\ NodeOf(id).metadata.structural_order[1]
                                  > n.metadata.structural_order[1] => j > i
                /\ Cardinality({i \in DOMAIN chunks :
                                   n.metadata.structural_node_id \in IdsOf(i)}) = 1
                /\ n.metadata.structural_node_id \in Range(warnings)

\* An oversized node between two other nodes of its item, all chunked
C2_Witness ==
    /\ pc = "done"
    /\ \E a, n, b \in Range(nodes) :
          /\ Oversized(n)
          /\ a.metadata.parent_item = n.metadata.parent_item
          /\ b.metadata.parent_item = n.metadata.parent_item
          /\ a.metadata.structural_order[1] < n.metadata.structural_order[1]
          /\ n.metadata.structural_order[1] < b.metadata.structural_order[1]

\* C3: every id in table_references (image_references) of a chunk is the id of
\* a table (image) node contained in that chunk or in the chunk right before or
\* right after it within the same item.
C3_ReferenceClosure ==
    \A i \in DOMAIN chunks : \A type \in {"table", "image"} :
        \A id \in References(chunks[i], type) :
            /\ \E n \in Range(nodes) :
                  n.metadata.structural_node_id = id /\ n.node_type = type
            /\ \/ id \in IdsOf(i)
               \/ SameItem(i, i - 1) /\ id \in IdsOf(i - 1)
               \/ SameItem(i, i + 1) /\ id \in IdsOf(i + 1)

\* A chunk that references a table of its neighbour, while a table or image of
\* a chunk that is not its neighbour stays unreferenced
C3_Witness ==
    \E i, j \in DOMAIN chunks :
        /\ SameItem(i, i + 1)
        /\ \E id \in References(chunks[i], "table") : id \in IdsOf(i + 1) \ IdsOf(i)
        /\ j \notin {i - 1, i, i + 1}
        /\ \E id \in IdsOf(j) :
              /\ IsMedia(NodeOf(id))
              /\ id \notin References(chunks[i], "table")
                             \cup References(chunks[i], "image")

\* What the claims expect of the overlaps, from the neighbouring chunks' nodes

\* the words of a chunk's contained node texts, concatenated
CoreWords(c) == Flatten([k \in DOMAIN Contained(c) |-> Contained(c)[k].text])

FirstWords(ws, n) == [k \in 1..Min({n, Len(ws)}) |-> ws[k]]

LastWords(ws, n) ==
    [k \in 1..Min({n, Len(ws)}) |-> ws[Len(ws) - Min({n, Len(ws)}) + k]]

\* before-overlap a chunk gets from the chunk "earlier" in front of it
ExpectedBefore(earlier) ==
    LET last == Contained(earlier)[Len(Contained(earlier))]
    IN  IF IsMedia(last) THEN last.min_text ELSE LastWords(CoreWords(earlier), Overlap)

\* after-overlap a chunk gets from the chunk "later" behind it
ExpectedAfter(later) ==
    LET first == Contained(later)[1]
    IN  IF IsMedia(first) THEN first.min_text ELSE FirstWords(CoreWords(later), Overlap)

\* the parts of a content, a part without words leaving no trace in the string
Parts(ps) == SelectSeq(ps, LAMBDA part : part # <<>>)

\* C4: with chunk_overlap_words > 0, for adjacent chunks of one item the
\* before-overlap of the later one is the min_text of the earlier one's last
\* node when that is a table or image and else the last chunk_overlap_words
\* words of the earlier one's node texts (all if fewer), the after-overlap of
\* the earlier one is the min_text of the later one's first node when that is a
\* table or image and else the first chunk_overlap_words words of its texts,
\* and a content is before-overlap, node texts, after-overlap in that order.
C4_OverlapContent ==
    Overlap > 0 =>
        \A i \in DOMAIN chunks :
            chunks[i].content =
                Parts((IF SameItem(i, i - 1)
                       THEN <<ExpectedBefore(chunks[i - 1])>> ELSE <<>>)
                      \o [k \in DOMAIN Contained(chunks[i]) |-> Contained(chunks[i])[k].text]
                      \o (IF SameItem(i, i + 1)
                          THEN <<ExpectedAfter(chunks[i + 1])>> ELSE <<>>))

\* Adjacent chunks of one item where the earlier ends in a text of more words
\* than the overlap and the later starts with a table or image, and a chunk of
\* fewer words than the overlap in front of another chunk
C4_Witness ==
    /\ Overlap > 0
    /\ \E i \in DOMAIN chunks :
          /\ SameItem(i, i + 1)
          /\ ~IsMedia(Contained(chunks[i])[Len(Contained(chunks[i]))])
          /\ Len(CoreWords(chunks[i])) > Overlap
            /\ IsMedia(Contained(chunks[i + 1])[1])
          /\ Len(Contained(chunks[i + 1])[1].min_text) > Overlap
    /\ \E j \in DOMAIN chunks :
          /\ SameItem(j, j + 1)
          /\ ~IsMedia(Contained(chunks[j])[Len(Contained(chunks[j]))])
          /\ Len(CoreWords(chunks[j])) < Overlap

\* C5: a chunk references every table and image it contains, and with overlap
\* wiring also the table or image that ends the chunk before it or starts the
\* chunk after it within the item (whose min_text is its overlap).
C5_MediaReferenced ==
    \A i \in DOMAIN chunks :
        /\ \A id \in IdsOf(i) :
              IsMedia(NodeOf(id)) => id \in References(chunks[i], NodeOf(id).node_type)
        /\ (Overlap > 0 /\ SameItem(i, i - 1)) =>
              LET last == Contained(chunks[i - 1])[Len(Contained(chunks[i - 1]))]
              IN  IsMedia(last) =>
                     last.metadata.structural_node_id
                        \in References(chunks[i], last.node_type)
        /\ (Overlap > 0 /\ SameItem(i, i + 1)) =>
              LET first == Contained(chunks[i + 1])[1]
              IN  IsMedia(first) =>
                     first.metadata.structural_node_id
                        \in References(chunks[i], first.node_type)

\* A table-only chunk between two text chunks of its item, overlaps wired
C5_Witness ==
    /\ Overlap > 0
    /\ \E i \in DOMAIN chunks :
          /\ SameItem(i, i - 1)
          /\ SameItem(i, i + 1)
          /\ Len(Contained(chunks[i])) = 1
          /\ Contained(chunks[i])[1].node_type = "table"
          /\ \A j \in {i - 1, i + 1} : \A id \in IdsOf(j) : ~IsMedia(NodeOf(id))
          /\ Contained(chunks[i])[1].min_text \in Range(chunks[i - 1].content)
          /\ Contained(chunks[i])[1].min_text \in Range(chunks[i + 1].content)

\* C8: after get_chunks the order values are 0..M-1 in list order, and of two
\* chunks the one of lower order holds only nodes of lower structural_order.
C8_GlobalOrder ==
    pc = "done" =>
        /\ \A i \in DOMAIN chunks : chunks[i].metadata.order = Some(i - 1)
        /\ \A i, j \in DOMAIN chunks :
              chunks[i].metadata.order[1] < chunks[j].metadata.order[1] =>
                 \A a \in IdsOf(i), b \in IdsOf(j) :
                    NodeOf(a).metadata.structural_order[1]
                       < NodeOf(b).metadata.structural_order[1]

\* Two chunks of one item followed by a chunk of the next item, all ordered
C8_Witness ==
    /\ pc = "done"
    /\ \E i \in DOMAIN chunks :
          /\ SameItem(i, i + 1)
          /\ i + 2 \in DOMAIN chunks
          /\ ~SameItem(i + 1, i + 2)
          /\ chunks[i + 2].metadata.order = Some(i + 1)

\* C6 as claimed: scenario T4 yields at least three chunks for every table X.
C6_T4AtLeastThreeChunks ==
    pc = "done" => Len(chunks) >= 3

\* the table X of scenario T4
T4Table == nodes[2]

\* C6 amended: scenario T4 yields at least three chunks exactly when the text
\* of X has more than 100 words (so that X does not fit behind the 400 words of
\* TextA), with X in a chunk of its own; otherwise X shares the chunk of TextA
\* and there are two chunks.
C6_T4ThreeChunksIffTableOverflows ==
    pc = "done" =>
        IF WordCount(T4Table) > 100
        THEN /\ Len(chunks) = 3
             /\ chunks[2].metadata.structural_node_ids
                   = <<T4Table.metadata.structural_node_id>>
        ELSE /\ Len(chunks) = 2
             /\ T4Table.metadata.structural_node_id \in IdsOf(1)

\* Scenario T4 chunked with a table that overflows the chunk of TextA
C6_Witness ==
    /\ pc = "done"
    /\ WordCount(T4Table) > 100
    /\ WordCount(T4Table) <= Budget
    /\ Len(chunks) = 3

\* the page numbers of the nodes a chunk contains
PagesOf(c) ==
    {Contained(c)[k].metadata.page_number[1] :
        k \in {j \in DOMAIN Contained(c) : Contained(c)[j].metadata.page_number # None}}

RECURSIVE Ascending(_)
Ascending(S) == IF S = {} THEN <<>> ELSE <<Min(S)>> \o Ascending(S \ {Min(S)})

\* C7 as claimed: page_numbers lists the (stringified) page numbers of the
\* contained nodes in numerical order without duplicates and page_range is the
\* pair (min, max) of them; page_range is None if no contained node has a page
\* number.
C7_PageRange ==
    \A i \in DOMAIN chunks :
        LET pages == PagesOf(chunks[i])
            meta == chunks[i].metadata
        IN  IF pages = {}
            THEN meta.page_range = None /\ Listed(meta.page_numbers) = {}
            ELSE /\ meta.page_numbers =
                       Some([k \in DOMAIN Ascending(pages) |-> str(Ascending(pages)[k])])
                 /\ meta.page_range = Some(<<str(Min(pages)), str(Max(pages))>>)

-----------------------------------------------------------------------------
(* The parsed HTML: bs4 elements as the parser reads them *)

\* A Tag with its children; a NavigableString with the tokens of its text.
\* A token is <<kind, n>>: a word, the separator "|", "Form", "10-K", or a
\* run of digits with its value. A string without tokens is whitespace.
Tag(name, children) == [name |-> name, string |-> <<>>, children |-> children]

NavigableString(tokens) == [name |-> "#text", string |-> tokens, children |-> <<>>]

isinstance_Tag(child) == child.name # "#text"

\* the elements below el in document order (el itself is not one of them)
RECURSIVE descendants(_)
descendants(el) ==
    Flatten([k \in DOMAIN el.children |->
                <<el.children[k]>> \o descendants(el.children[k])])

\* Tag.find_all(name): descendants only
find_all(el, names) == SelectSeq(descendants(el), LAMBDA d : d.name \in names)

\* Tag.get_text(strip=True): the stripped strings below el that are not empty
get_text(el) ==
    LET strings == SelectSeq(descendants(el), LAMBDA d : ~isinstance_Tag(d))
    IN  Flatten([k \in DOMAIN strings |-> strings[k].string])

\* a call either returns a value or raises ValueError
ValueError == [raised |-> TRUE, value |-> None]

Return(v) == [raised |-> FALSE, value |-> v]

\* parser.extract_table
extract_table(el) ==
    LET tables == find_all(el, {"table"})
    IN  IF Len(tables) > 1 THEN ValueError
        ELSE Return(IF Len(tables) = 1 THEN Some(tables[1]) ELSE None)

\* parser.extract_image
extract_image(el) ==
    LET imgs == find_all(el, {"img"})
    IN  IF Len(imgs) > 1 THEN ValueError
        ELSE Return(IF Len(imgs) = 1 THEN Some(imgs[1]) ELSE None)

\* PAGE_FOOTER_PATTERN: some text, "|", four digits, "Form 10-K", "|", digits
\* up to the end of the text
PAGE_FOOTER_PATTERN_match(text) ==
    LET n == Len(text)
    IN  /\ n >= 7
        /\ text[n - 5] = <<"|", 0>>
        /\ text[n - 4][1] = "digits" /\ text[n - 4][2] \in 1000..9999
        /\ text[n - 3] = <<"Form", 0>>
        /\ text[n - 2] = <<"10-K", 0>>
        /\ text[n - 1] = <<"|", 0>>
        /\ text[n][1] = "digits"

\* parser.extract_page_footer
extract_page_footer(el) ==
    LET text == get_text(el)
    IN  IF PAGE_FOOTER_PATTERN_match(text) THEN Some(text[Len(text)][2]) ELSE None

\* parser.is_non_content: `and` stops at the first false operand
is_non_content(el) ==
    IF get_text(el) # <<>> THEN Return(FALSE)
    ELSE IF extract_table(el).raised THEN ValueError
    ELSE IF extract_table(el).value # None THEN Return(FALSE)
    ELSE IF extract_image(el).raised THEN ValueError
    ELSE IF extract_image(el).value # None THEN Return(FALSE)
    ELSE Return(extract_page_footer(el) = None)

\* parser.extract_text: `or` stops at the first true operand
extract_text(el) ==
    IF extract_table(el).raised THEN ValueError
    ELSE IF extract_table(el).value # None THEN Return(None)
    ELSE IF extract_image(el).raised THEN ValueError
    ELSE IF extract_image(el).value # None THEN Return(None)
    ELSE IF extract_page_footer(el) # None \/ get_text(el) = <<>> THEN Return(None)
    ELSE Return(Some(get_text(el)))

\* sum() of a list of bools
bool_sum(flags) == SumSeq([k \in DOMAIN flags |-> IF flags[k] THEN 1 ELSE 0])

\* the if-chain of _classify_element
first_true(is_table, is_image, is_page_footer, element_is_non_content, is_text) ==
    IF is_table THEN Return("table")
    ELSE IF is_image THEN Return("image")
    ELSE IF is_page_footer THEN Return("page_footer")
    ELSE IF element_is_non_content THEN Return("non_content")
    ELSE IF is_text THEN Return("text")
    ELSE ValueError

\* _classify_element without its check of the sum
check_skipped(is_table, is_image, is_page_footer, element_is_non_content, is_text) ==
    first_true(is_table, is_image, is_page_footer, element_is_non_content, is_text)

\* the check of the sum, then the if-chain
check_sum(is_table, is_image, is_page_footer, element_is_non_content, is_text) ==
    IF bool_sum(<<is_table, is_image, is_page_footer,
                  element_is_non_content, is_text>>) # 1
    THEN ValueError
    ELSE first_true(is_table, is_image, is_page_footer, element_is_non_content, is_text)

\* TenKParser._classify_element
classify_element(el) ==
    IF extract_table(el).raised \/ extract_image(el).raised THEN ValueError
    ELSE IF is_non_content(el).raised \/ extract_text(el).raised THEN ValueError
    ELSE check_sum(extract_table(el).value # None,
                   extract_image(el).value # None,
                   extract_page_footer(el) # None,
                   is_non_content(el).value,
                   extract_text(el).value # None)

\* StructuralNodeMetadata() with its structural_node_id: uuid4 makes the id
\* of every node created distinct, the place of the node's element in the
\* document stands for it
StructuralNodeMetadata(prefix, path) ==
    [structural_node_id |-> <<prefix, path>>,
     parent_item |-> NoItem,
     item_anchor |-> None,
     page_number |-> None,
     structural_order |-> None,
     ticker |-> None]

id_prefix(type) ==
    CASE type = "text" -> "text"
      [] type = "table" -> "table"
      [] type = "image" -> "image"
      [] type = "page_footer" -> "footer"
      [] type = "non_content" -> "noncontent"

\* what the from_element of the node class of a type tests before it builds
element_is(el, type) ==
    CASE type = "text" ->
            IF extract_text(el).raised THEN ValueError
            ELSE Return(extract_text(el).value # None)
      [] type = "table" ->
            IF extract_table(el).raised THEN ValueError
            ELSE Return(extract_table(el).value # None)
      [] type = "image" ->
            IF extract_image(el).raised THEN ValueError
            ELSE Return(extract_image(el).value # None)
      [] type = "page_footer" -> Return(extract_page_footer(el) # None)
      [] type = "non_content" -> is_non_content(el)

\* TextNode / TableNode / ImageNode / PageFooterNode / NonContentNode
\* .from_element: only a PageFooterNode has a page_number attribute
from_element(el, type, path) ==
    IF element_is(el, type).raised \/ ~element_is(el, type).value THEN ValueError
    ELSE Return([node_type |-> type,
                 element |-> el,
                 page_number |-> IF type = "page_footer"
                                 THEN extract_page_footer(el) ELSE None,
                 metadata |-> StructuralNodeMetadata(id_prefix(type), path)])

\* TenKParser._create_single_node
create_single_node(el, type, path) == from_element(el, type, path)

\* the except branch of _element_to_structural_nodes, given what the recursive
\* calls on the children return: the loop skips the children that are no Tag
\* and extends nodes by the others' nodes
extend_children(el, returned) ==
    IF \E k \in DOMAIN el.children :
           isinstance_Tag(el.children[k]) /\ returned[k].raised
    THEN ValueError
    ELSE Return(Flatten([k \in DOMAIN el.children |->
                    IF isinstance_Tag(el.children[k]) THEN returned[k].value ELSE <<>>]))

\* TenKParser._element_to_structural_nodes; path is the place of el
RECURSIVE element_to_structural_nodes(_, _)
element_to_structural_nodes(el, path) ==
    LET type == classify_element(el)
    IN  IF type.raised
        THEN extend_children(el,
                [k \in DOMAIN el.children |->
                    IF isinstance_Tag(el.children[k])
                    THEN element_to_structural_nodes(el.children[k], Append(path, k))
                    ELSE Return(<<>>)])
        ELSE IF create_single_node(el, type.value, path).raised THEN ValueError
        ELSE Return(<<create_single_node(el, type.value, path).value>>)

\* TenKParser._element_to_structural_node
element_to_structural_node(el, path) ==
    LET node_list == element_to_structural_nodes(el, path)
    IN  IF node_list.raised THEN ValueError
        ELSE IF node_list.value # <<>> THEN Return(node_list.value[1])
        ELSE from_element(el, "non_content", path)

-----------------------------------------------------------------------------
(* _element_to_structural_nodes on one element, as a state machine *)

\* most children an element of the modelled documents has
MaxChildren == 2

\* The texts of the modelled documents: whitespace, a word, a page footer
\* ("Apple | 2025 Form 10-K | 7") and the end of one without a company name
Whitespace == <<>>

Words == <<<<"word", 1>>>>

FooterTail(page) ==
    <<<<"|", 0>>, <<"digits", 2025>>, <<"Form", 0>>, <<"10-K", 0>>,
      <<"|", 0>>, <<"digits", page>>>>

Footer(page) == <<<<"word", 0>>>> \o FooterTail(page)

Strings == {NavigableString(t) : t \in {Whitespace, Words, Footer(7), FooterTail(7)}}

SeqsUpTo(S, n) == UNION {[1..m -> S] : m \in 0..n}

\* tags without a tag inside: <div>, <table> with at most a text, and <img>
LeafTags ==
    {Tag(name, kids) : name \in {"div", "table"}, kids \in SeqsUpTo(Strings, 1)}
        \cup {Tag("img", <<>>)}

\* a <div> around leaf tags and texts
Wrappers ==
    {Tag("div", kids) : kids \in SeqsUpTo(LeafTags \cup Strings, MaxChildren) \ {<<>>}}

\* a <div> around a wrapper, alone or followed by a text or an image
Nested ==
    {Tag("div", <<w>> \o rest) :
        w \in Wrappers,
        rest \in {<<>>, <<NavigableString(Words)>>, <<Tag("img", <<>>)>>}}

Elements == LeafTags \cup Wrappers \cup Nested

\* the other variables while one element is classified
WalkIdle ==
    /\ nodes = <<>>
    /\ soup = <<>>
    /\ toc_items = <<>>
    /\ item_index = 0
    /\ current_element = None
    /\ raw_nodes = <<>>

ChunkerIdle ==
    /\ chunking_config = DEFAULT_ITEM_CHUNKING_CONFIG
    /\ views = <<>>
    /\ chunks = <<>>
    /\ warnings = <<>>
    /\ OthersIdle

InitClassify ==
    /\ pc = "element"
    /\ element \in {Some(el) : el \in Elements}
    /\ node_type = None
    /\ extracted = <<>>
    /\ WalkIdle
    /\ ChunkerIdle

\* try: node_type = self._classify_element(element)
ClassifyElement ==
    /\ pc = "element"
    /\ node_type' = Some(classify_element(element[1]))
    /\ pc' = "classified"
    /\ UNCHANGED <<nodes, element, extracted, chunker_vars, parser_vars, other_vars>>

\* no error: return [self._create_single_node(element, node_type)]
CreateSingleNode ==
    /\ pc = "classified"
    /\ ~node_type[1].raised
    /\ extracted' = <<create_single_node(element[1], node_type[1].value, <<>>).value>>
    /\ pc' = "returned"
    /\ UNCHANGED <<nodes, element, node_type, chunker_vars, parser_vars, other_vars>>

\* except ValueError: the nodes of the children that are Tags
RecurseIntoChildren ==
    /\ pc = "classified"
    /\ node_type[1].raised
    /\ extracted' =
           extend_children(element[1],
               [k \in DOMAIN element[1].children |->
                   IF isinstance_Tag(element[1].children[k])
                   THEN element_to_structural_nodes(element[1].children[k], <<k>>)
                   ELSE Return(<<>>)]).value
    /\ pc' = "returned"
    /\ UNCHANGED <<nodes, element, node_type, chunker_vars, parser_vars, other_vars>>

NextClassify == ClassifyElement \/ CreateSingleNode \/ RecurseIntoChildren

SpecClassify == InitClassify /\ [][NextClassify]_vars

\* the number of tags of a name below an element, the element not counted
RECURSIVE CountBelow(_, _)
CountBelow(el, name) ==
    SumSeq([k \in DOMAIN el.children |->
               (IF el.children[k].name = name THEN 1 ELSE 0)
                   + CountBelow(el.children[k], name)])

\* the collapsed text of an element
RECURSIVE TextOf(_)
TextOf(el) ==
    IF el.name = "#text" THEN el.string
    ELSE Flatten([k \in DOMAIN el.children |-> TextOf(el.children[k])])

\* the collapsed text is some text followed by "| <year> Form 10-K | <page>"
IsFooterText(el) ==
    LET t == TextOf(el)
    IN  /\ Len(t) > 6
        /\ t[Len(t) - 5] = <<"|", 0>>
        /\ t[Len(t) - 4][1] = "digits"
        /\ t[Len(t) - 4][2] >= 1000 /\ t[Len(t) - 4][2] <= 9999
        /\ SubSeq(t, Len(t) - 3, Len(t) - 1) = <<<<"Form", 0>>, <<"10-K", 0>>, <<"|", 0>>>>
        /\ t[Len(t)][1] = "digits"

\* two or more tables, or two or more images, below the element
HardError(el) == CountBelow(el, "table") >= 2 \/ CountBelow(el, "img") >= 2

\* the five predicates, each named by the node type it stands for
Holds(type, el) ==
    LET bare == /\ CountBelow(el, "table") = 0
                /\ CountBelow(el, "img") = 0
                /\ ~IsFooterText(el)
    IN  CASE type = "table" -> CountBelow(el, "table") = 1
          [] type = "image" -> CountBelow(el, "img") = 1
          [] type = "page_footer" -> IsFooterText(el)
          [] type = "non_content" -> bare /\ TextOf(el) = <<>>
          [] type = "text" -> bare /\ TextOf(el) # <<>>

NodeTypes == {"text", "table", "image", "page_footer", "non_content"}

Holding(el) == {type \in NodeTypes : Holds(type, el)}

\* the nodes of the children of el that are tags, in document order
NodesOfChildren(el) ==
    Flatten([k \in DOMAIN el.children |->
                IF el.children[k].name = "#text" THEN <<>>
                ELSE element_to_structural_nodes(el.children[k], <<k>>).value])

\* C10: _classify_element returns a node type for an element if and only if
\* exactly one of the five predicates (is_table, is_image, is_page_footer,
\* is_non_content, is_text) holds for it, and the type returned is the one that
\* holds; in every other case, an element with two or more descendant tables or
\* images included, it raises an error, which _element_to_structural_nodes
\* catches to return the nodes of the element's children instead.
C10_ClassificationContract ==
    pc \in {"classified", "returned"} =>
        LET el == element[1]
        IN  IF ~HardError(el) /\ Cardinality(Holding(el)) = 1
            THEN /\ ~node_type[1].raised
                 /\ node_type[1].value \in Holding(el)
            ELSE /\ node_type[1].raised
                 /\ pc = "returned" => extracted = NodesOfChildren(el)

\* An element with one table and one image below it (two predicates hold) was
\* refused by the classifier and its children gave the nodes
C10_Witness ==
    /\ pc = "returned"
    /\ element # None
    /\ ~HardError(element[1])
    /\ {"table", "image"} \subseteq Holding(element[1])
    /\ node_type[1].raised
    /\ extracted # <<>>

-----------------------------------------------------------------------------
(* The node extractor: TenKParser.get_structured_nodes_stream *)

\* the document around the sibling elements
body(siblings) == Tag("body", siblings)

\* start_el.find_previous_sibling() or start_el.parent
find_previous_sibling_or_parent(siblings, start) ==
    IF start > 1 THEN siblings[start - 1] ELSE body(siblings)

\* soup.find_all(['div', 'table', 'p'])[-1], or the body without any
last_significant_element(siblings) ==
    LET all_elements == find_all(body(siblings), {"div", "table", "p"})
    IN  IF all_elements # <<>> THEN all_elements[Len(all_elements)] ELSE body(siblings)

\* "for j in range(i + 2, len(toc_items))": the end element set by the first
\* future_item that has a start element, None when the loop ends without one
RECURSIVE probe_future_items(_, _, _)
probe_future_items(siblings, items, j) ==
    IF j > Len(items) THEN None
    ELSE IF items[j].start_el # None
    THEN Some(find_previous_sibling_or_parent(siblings, items[j].start_el[1]))
    ELSE probe_future_items(siblings, items, j + 1)

\* a second pass that looks at the next item only and never probes further
end_before_next_item(siblings, items, i) ==
    IF items[i].start_el = None THEN None
    ELSE IF i + 1 <= Len(items) /\ items[i + 1].start_el # None
    THEN Some(find_previous_sibling_or_parent(siblings, items[i + 1].start_el[1]))
    ELSE Some(last_significant_element(siblings))

\* _get_toc_items, second pass: the end element of the i-th item (i counts
\* from 1). An item without start element keeps end_el None.
toc_end_el(siblings, items, i) ==
    IF items[i].start_el = None THEN None
    ELSE LET end_el ==
                 IF i + 1 <= Len(items)
                 THEN IF items[i + 1].start_el # None
                      THEN Some(find_previous_sibling_or_parent(
                                    siblings, items[i + 1].start_el[1]))
                      ELSE probe_future_items(siblings, items, i + 2)
                 ELSE None
         IN  IF end_el = None THEN Some(last_significant_element(siblings))
             ELSE end_el

get_toc_items(siblings, items) ==
    [i \in DOMAIN items |-> [items[i] EXCEPT !.end_el = toc_end_el(siblings, items, i)]]

\* current_element.find_next_sibling()
find_next_sibling(siblings, position) ==
    IF position < Len(siblings) THEN Some(position + 1) ELSE None

\* the condition of the while loop of _get_structured_nodes: != on Tags
\* compares name and contents, not identity
while_condition(siblings, item, current) ==
    /\ current # None
    /\ item.end_el = None \/ siblings[current[1]] # item.end_el[1]

\* TenKParser._update_nodes_base_metadata (company, form, year ... like ticker)
update_nodes_base_metadata(node_list) ==
    [i \in DOMAIN node_list |->
        [node_list[i] EXCEPT !.metadata.ticker = Some("AAPL")]]

\* a back-fill from the footer before a node instead of the one after it
update_from_previous_footer(node_list) ==
    [i \in DOMAIN node_list |->
        LET footers == {j \in 1..i : node_list[j].node_type = "page_footer"}
        IN  IF node_list[i].node_type # "page_footer"
            THEN IF footers # {}
                 THEN [node_list[i] EXCEPT
                          !.metadata.page_number = node_list[Max(footers)].page_number]
                 ELSE node_list[i]
            ELSE [node_list[i] EXCEPT !.metadata.page_number = node_list[i].page_number]]

\* TenKParser._update_nodes_metadata_page_number
update_nodes_metadata_page_number(node_list) ==
    [i \in DOMAIN node_list |->
        LET footers == {j \in i..Len(node_list) : node_list[j].node_type = "page_footer"}
        IN  IF node_list[i].node_type # "page_footer"
            THEN IF footers # {}
                 THEN [node_list[i] EXCEPT
                          !.metadata.page_number = node_list[Min(footers)].page_number]
                 ELSE node_list[i]
            ELSE [node_list[i] EXCEPT !.metadata.page_number = node_list[i].page_number]]

\* [node for node in nodes if node.node_type != type]
remove(node_list, type) == SelectSeq(node_list, LAMBDA node : node.node_type # type)

\* for i, node in enumerate(nodes): node.metadata.structural_order = i
assign_structural_order(node_list) ==
    [i \in DOMAIN node_list |->
        [node_list[i] EXCEPT !.metadata.structural_order = Some(i - 1)]]

\* structural_order assigned before the two filters instead of after them
order_then_filter(node_list) ==
    remove(remove(assign_structural_order(node_list), "page_footer"), "non_content")

\* get_structured_nodes_stream, lines 169-177
filter_then_order(node_list) ==
    assign_structural_order(remove(remove(node_list, "page_footer"), "non_content"))

\* most sibling elements a modelled document has
MaxSiblings == 3

\* The sibling elements of the modelled documents: a paragraph, a page
\* footer, an empty <div>, a table and an image
Catalogue ==
    {Tag("div", <<NavigableString(Words)>>),
     Tag("div", <<NavigableString(Footer(7))>>),
     Tag("div", <<>>),
     Tag("div", <<Tag("table", <<NavigableString(Words)>>)>>),
     Tag("div", <<Tag("img", <<>>)>>)}

\* an ItemTOCElement after the first pass of _get_toc_items
ItemTOCElement(item, anchor, start_el) ==
    [item |-> item, anchor |-> anchor, start_el |-> start_el, end_el |-> None]

\* A document of up to MaxSiblings elements whose table of contents links two
\* items; an anchor resolves to one of the elements or to nothing.
InitParse ==
    /\ pc = "toc"
    /\ soup \in SeqsUpTo(Catalogue, MaxSiblings) \ {<<>>}
    /\ \E start1, start2 \in {None} \cup {Some(k) : k \in 1..MaxSiblings} :
          /\ start1 # None => start1[1] <= Len(soup)
          /\ start2 # None => start2[1] <= Len(soup)
          /\ toc_items = <<ItemTOCElement(FirstItem, Some("i1"), start1),
                           ItemTOCElement(SecondItem, Some("i1a"), start2)>>
    /\ item_index = 0
    /\ current_element = None
    /\ raw_nodes = <<>>
    /\ nodes = <<>>
    /\ element = None
    /\ node_type = None
    /\ extracted = <<>>
    /\ ChunkerIdle

\* toc_items = self._get_toc_items(), and the for loop takes the first item
GetTocItems ==
    /\ pc = "toc"
    /\ toc_items' = get_toc_items(soup, toc_items)
    /\ item_index' = 1
    /\ current_element' = toc_items[1].start_el
    /\ pc' = "walk"
    /\ UNCHANGED <<nodes, soup, raw_nodes, chunker_vars, classifier_vars, other_vars>>

\* the body of the while loop of _get_structured_nodes
WalkElement ==
    /\ pc = "walk"
    /\ while_condition(soup, toc_items[item_index], current_element)
    /\ LET item == toc_items[item_index]
           position == current_element[1]
           structured_node ==
               element_to_structural_node(soup[position],
                                          <<Len(raw_nodes) + 1, position>>)
       IN  IF structured_node.raised
           THEN pc' = "ValueError" /\ UNCHANGED <<raw_nodes, current_element>>
           ELSE /\ raw_nodes' = Append(raw_nodes,
                       [structured_node.value EXCEPT
                           !.metadata.parent_item = item.item,
                           !.metadata.item_anchor = item.anchor])
                /\ current_element' = find_next_sibling(soup, position)
                /\ pc' = pc
    /\ UNCHANGED <<nodes, soup, toc_items, item_index, chunker_vars, classifier_vars, other_vars>>

\* a for loop that raises when the next item has no start element
NextItemOrRaise ==
    /\ pc = "walk"
    /\ ~while_condition(soup, toc_items[item_index], current_element)
    /\ item_index < Len(toc_items)
    /\ IF toc_items[item_index + 1].start_el = None
       THEN pc' = "ValueError" /\ UNCHANGED <<item_index, current_element>>
       ELSE /\ item_index' = item_index + 1
            /\ current_element' = toc_items[item_index + 1].start_el
            /\ pc' = pc
    /\ UNCHANGED <<nodes, soup, toc_items, raw_nodes, chunker_vars, classifier_vars, other_vars>>

\* the while loop is left and the for loop takes the next item
NextItem ==
    /\ pc = "walk"
    /\ ~while_condition(soup, toc_items[item_index], current_element)
    /\ item_index < Len(toc_items)
    /\ item_index' = item_index + 1
    /\ current_element' = toc_items[item_index + 1].start_el
    /\ UNCHANGED <<pc, nodes, soup, toc_items, raw_nodes, chunker_vars, classifier_vars, other_vars>>

\* _get_structured_nodes returns and get_structured_nodes_stream enriches,
\* filters and numbers its nodes
ReturnStream ==
    /\ pc = "walk"
    /\ ~while_condition(soup, toc_items[item_index], current_element)
    /\ item_index = Len(toc_items)
    /\ nodes' = filter_then_order(
                    update_nodes_metadata_page_number(
                        update_nodes_base_metadata(raw_nodes)))
    /\ pc' = "done"
    /\ UNCHANGED <<parser_vars, chunker_vars, classifier_vars, other_vars>>

NextParse == GetTocItems \/ WalkElement \/ NextItem \/ ReturnStream

SpecParse == InitParse /\ [][NextParse]_vars

\* the nodes that are neither page footers nor non-content
Surviving(node_list) ==
    SelectSeq(node_list, LAMBDA node : node.node_type \in {"text", "table", "image"})

IdsIn(node_list) == [k \in DOMAIN node_list |-> node_list[k].metadata.structural_node_id]

\* C9: the list get_structured_nodes_stream returns has no page_footer and no
\* non_content node, holds the surviving nodes in their original relative
\* order, and the structural_order of its k-th node (counted from 0) is k:
\* the values are exactly 0..N-1 in list order, without gaps or duplicates.
C9_FilteredAndNumbered ==
    pc = "done" =>
        /\ \A k \in DOMAIN nodes : nodes[k].node_type \notin {"page_footer", "non_content"}
        /\ IdsIn(nodes) = IdsIn(Surviving(raw_nodes))
        /\ \A k \in DOMAIN nodes :
              /\ nodes[k].element = Surviving(raw_nodes)[k].element
              /\ nodes[k].metadata.structural_order = Some(k - 1)

\* A stream was returned whose walk had met a page footer and a non-content
\* element before the last of two or more surviving nodes
C9_Witness ==
    /\ pc = "done"
    /\ Len(nodes) >= 2
    /\ \E i, j, k \in DOMAIN raw_nodes :
          /\ i < k /\ j < k
          /\ raw_nodes[i].node_type = "page_footer"
          /\ raw_nodes[j].node_type = "non_content"
          /\ raw_nodes[k].node_type \in {"text", "table", "image"}

-----------------------------------------------------------------------------
(* Exclusivity of the five predicates *)

\* C11 as claimed: for every element passed to the classifier the number of
\* satisfied predicates among is_table, is_image, is_page_footer,
\* is_non_content, is_text is 0 or 1, never 2 or more.
C11_Exclusivity ==
    pc \in {"classified", "returned"} => Cardinality(Holding(element[1])) <= 1

\* C11: for every element passed to the classifier that has at most one table
\* and at most one image below it, the number of satisfied predicates is never
\* 0; it is 1 exactly when the classifier returns a type, and it is 2 or more
\* exactly when the classifier refuses the element.
C11_OneOrSeveral ==
    pc \in {"classified", "returned"} /\ ~HardError(element[1]) =>
        LET satisfied == Cardinality(Holding(element[1]))
        IN  /\ satisfied >= 1
            /\ ~node_type[1].raised <=> satisfied = 1
            /\ node_type[1].raised <=> satisfied >= 2

\* The classifier was handed an element with one image whose text is a page
\* footer (is_image and is_page_footer are both satisfied) and refused it
C11_Witness ==
    /\ pc = "classified"
    /\ ~HardError(element[1])
    /\ Holding(element[1]) = {"image", "page_footer"}
    /\ node_type[1].raised

-----------------------------------------------------------------------------
(* The walk over elements that cannot be classified *)

\* Sibling elements the classifier refuses: a <div> around a table and an
\* image, and one around two tables with a paragraph between them; and a
\* paragraph
TableBlock == Tag("div", <<Tag("table", <<NavigableString(Words)>>)>>)

ImageBlock == Tag("div", <<Tag("img", <<>>)>>)

NestedCatalogue ==
    {Tag("div", <<NavigableString(Words)>>),
     Tag("div", <<TableBlock, ImageBlock>>),
     Tag("div", <<TableBlock, Tag("div", <<NavigableString(Words)>>), TableBlock>>)}

\* InitParse over documents of these elements
InitParseNested ==
    /\ pc = "toc"
    /\ soup \in SeqsUpTo(NestedCatalogue, MaxSiblings) \ {<<>>}
    /\ \E start1, start2 \in {None} \cup {Some(k) : k \in 1..MaxSiblings} :
          /\ start1 # None => start1[1] <= Len(soup)
          /\ start2 # None => start2[1] <= Len(soup)
          /\ toc_items = <<ItemTOCElement(FirstItem, Some("i1"), start1),
                           ItemTOCElement(SecondItem, Some("i1a"), start2)>>
    /\ item_index = 0
    /\ current_element = None
    /\ raw_nodes = <<>>
    /\ nodes = <<>>
    /\ element = None
    /\ node_type = None
    /\ extracted = <<>>
    /\ ChunkerIdle

SpecParseNested == InitParseNested /\ [][NextParse]_vars

\* the place in soup of the element whose visit made the k-th raw node
VisitOf(k) == raw_nodes[k].metadata.structural_node_id[2][2]

\* the nodes the extraction gives for the element of that visit
ExtractionOf(k) ==
    element_to_structural_nodes(soup[VisitOf(k)], <<k, VisitOf(k)>>).value

\* C12 as claimed: when an element visited by the item walk cannot be
\* classified, the node stream of the item holds, at that position, the
\* concatenation in document order of all the nodes the extraction gives for
\* its child elements; none of them is discarded.
C12_ChildrenConcatenated ==
    \A k \in DOMAIN raw_nodes :
        (/\ raw_nodes[k].metadata.structural_node_id[2][1] = k
         /\ classify_element(soup[VisitOf(k)]).raised)
        => /\ k + Len(ExtractionOf(k)) - 1 <= Len(raw_nodes)
           /\ IdsIn(SubSeq(raw_nodes, k, k + Len(ExtractionOf(k)) - 1))
                  = IdsIn(ExtractionOf(k))

-----------------------------------------------------------------------------
(* Tables: parse_html_table, merge_dataframe_columns, TableForEmbedding *)

\* A Python str is the sequence of its characters. A <table> is the sequence
\* of its <tr> rows; a row has its cells (text and colspan) and header tells
\* whether is_header_row finds a <th> or bold text in it.
Cell(text, colspan) == [text |-> text, colspan |-> colspan]

Row(header, cells) == [header |-> header, cells |-> cells]

is_header_row(row) == row.header

DigitChars == <<"0", "1", "2", "3", "4", "5", "6", "7", "8", "9">>

\* f"{i}" of a non-negative int
RECURSIVE format_int(_)
format_int(n) ==
    IF n < 10 THEN <<DigitChars[n + 1]>>
    ELSE format_int(n \div 10) \o <<DigitChars[(n % 10) + 1]>>

\* str.strip() of spaces
RECURSIVE strip(_)
strip(text) ==
    IF text = <<>> THEN text
    ELSE IF Head(text) = " " THEN strip(Tail(text))
    ELSE IF text[Len(text)] = " " THEN strip(SubSeq(text, 1, Len(text) - 1))
    ELSE text

\* an empty pd.DataFrame(), and one with columns, index and rows of cells
EmptyDataFrame == [columns |-> <<>>, index |-> <<>>, data |-> <<>>]

DataFrame(data, columns, index) == [columns |-> columns, index |-> index, data |-> data]

\* parse_html_table, step 4: (base_name, duplicate_index, is_duplicate) of the
\* k-th header cell
header_cell_info(header_cells, k) ==
    LET text == header_cells[k].text
        same == {j \in DOMAIN header_cells : header_cells[j].text = text}
        group_starts ==
            {j \in 1..k : /\ header_cells[j].text = <<>>
                          /\ (j = 1 \/ header_cells[j - 1].text # <<>>)}
    IN  IF text # <<>>
        THEN [base_name |-> text,
              duplicate_index |-> Cardinality({j \in same : j < k}),
              is_duplicate |-> Cardinality(same) > 1]
        ELSE [base_name |-> <<"e", "m", "p", "t", "y", "_", "c", "o", "l">>,
              duplicate_index |-> Cardinality(group_starts) - 1,
              is_duplicate |-> TRUE]

\* the names one header cell expands to, expanded being the names so far
RECURSIVE header_names(_, _, _, _)
header_names(cell, info, i, expanded) ==
    IF i >= cell.colspan THEN expanded
    ELSE header_names(cell, info, i + 1,
            Append(expanded,
                IF info # None
                THEN IF info[1].is_duplicate
                     THEN info[1].base_name \o <<"_", "_">>
                              \o format_int(info[1].duplicate_index)
                              \o <<"_", "_">> \o format_int(i)
                     ELSE info[1].base_name \o <<"_", "_">> \o format_int(i)
                ELSE IF cell.text # <<>>
                THEN cell.text \o <<"_", "_">> \o format_int(i)
                ELSE <<"C", "o", "l", "u", "m", "n", "_", "_">>
                         \o format_int(Len(expanded))))

\* parse_html_table.expand_row from the k-th cell on; header_info is None or
\* Some list of header_cell_info
RECURSIVE expand_cells(_, _, _, _, _)
expand_cells(row, is_header, header_info, k, expanded) ==
    IF k > Len(row.cells) THEN expanded
    ELSE LET cell == row.cells[k]
         IN  expand_cells(row, is_header, header_info, k + 1,
                IF /\ is_header
                   /\ header_info # None /\ header_info[1] # <<>>
                   /\ k - 1 < Len(header_info[1])
                THEN header_names(cell, Some(header_info[1][k]), 0, expanded)
                ELSE IF is_header
                THEN header_names(cell, None, 0, expanded)
                ELSE expanded \o <<cell.text>> \o [j \in 1..(cell.colspan - 1) |-> <<>>])

expand_row(row, is_header, header_info) ==
    expand_cells(row, is_header, header_info, 1, <<>>)

\* row[:num_cols], padded with '' up to num_cols
normalize(row, num_cols) ==
    [j \in 1..num_cols |-> IF j <= Len(row) THEN row[j] ELSE <<>>]

\* parse_html_table, step 6: name and cells of the data row at source
\* index i (position i + 1 of rows); grid[i] is read with the index of rows
data_row(rows, grid, i) ==
    LET row_data == grid[i + 1]
        row_name_colspan == rows[i + 1].cells[1].colspan
        base_row_name == IF strip(row_data[1]) # <<>> THEN strip(row_data[1])
                         ELSE <<"R", "o", "w", "_">> \o format_int(i)
    IN  [row_name |-> base_row_name \o <<" ", "(">> \o format_int(i) \o <<")">>,
         data |-> [j \in DOMAIN row_data |->
                      IF j <= row_name_colspan THEN <<>> ELSE row_data[j]]]

\* parse_html_table; source indexes count from 0
parse_html_table(rows) ==
    LET headers == {i \in 0..(Len(rows) - 1) : is_header_row(rows[i + 1])}
        header_idx == IF headers # {} THEN Min(headers) ELSE 0
        header_cells == rows[header_idx + 1].cells
        info == [k \in DOMAIN header_cells |-> header_cell_info(header_cells, k)]
        expanded == [p \in DOMAIN rows |->
                        expand_row(rows[p], is_header_row(rows[p]),
                                   IF p = header_idx + 1 THEN Some(info) ELSE None)]
        grid == SelectSeq(expanded, LAMBDA expanded_row : expanded_row # <<>>)
        final_column_names == grid[header_idx + 1]
        kept == {i \in 0..(Len(rows) - 1) :
                    /\ i # header_idx
                    /\ rows[i + 1].cells # <<>>
                    /\ i < Len(grid)
                    /\ \E j \in DOMAIN grid[i + 1] : strip(grid[i + 1][j]) # <<>>}
        order == Ascending(kept)
    IN  IF rows = <<>> \/ grid = <<>> \/ header_idx >= Len(grid) \/ kept = {}
        THEN EmptyDataFrame
        ELSE DataFrame(
                [k \in DOMAIN order |->
                    normalize(data_row(rows, grid, order[k]).data,
                              Len(final_column_names))],
                final_column_names,
                [k \in DOMAIN order |-> data_row(rows, grid, order[k]).row_name])

\* str.split('__')
RECURSIVE split(_)
split(text) ==
    LET at_sep == {i \in 1..(Len(text) - 1) : text[i] = "_" /\ text[i + 1] = "_"}
    IN  IF at_sep = {} THEN <<text>>
        ELSE <<SubSeq(text, 1, Min(at_sep) - 1)>>
                 \o split(SubSeq(text, Min(at_sep) + 2, Len(text)))

\* '__'.join(parts)
RECURSIVE join(_)
join(parts) ==
    IF Len(parts) = 1 THEN parts[1]
    ELSE parts[1] \o <<"_", "_">> \o join(Tail(parts))

\* merge_dataframe_columns.get_merge_key
get_merge_key(col_name) ==
    LET parts == split(col_name)
    IN  IF Len(parts) >= 3 THEN join(SubSeq(parts, 1, Len(parts) - 1))
        ELSE IF Len(parts) = 2 THEN parts[1]
        ELSE col_name

\* df.at[idx, col]: the cell, or with a column label that is not unique (.at
\* falls back to .loc) the Series of the cells of all columns of that label
at(df, r, col) ==
    LET labelled == {j \in DOMAIN df.columns : df.columns[j] = col}
    IN  IF Cardinality(labelled) = 1
        THEN [scalar |-> TRUE, cells |-> <<df.data[r][CHOOSE j \in labelled : TRUE]>>,
              label |-> col]
        ELSE [scalar |-> FALSE,
              cells |-> [k \in DOMAIN Ascending(labelled) |->
                            df.data[r][Ascending(labelled)[k]]],
              label |-> col]

\* str(v): the cell itself, or the lines of a Series and its dtype line
str_value(v) ==
    IF v.scalar THEN v.cells[1]
    ELSE Flatten([k \in DOMAIN v.cells |-> v.label \o <<" ">> \o v.cells[k] \o <<"\n">>])
             \o <<"d", "t", "y", "p", "e">>

\* merge_dataframe_columns.merge_values
merge_values(values) ==
    LET non_empty == SelectSeq([k \in DOMAIN values |-> strip(str_value(values[k]))],
                               LAMBDA text : text # <<>>)
    IN  Flatten(non_empty)

\* the while loop of merge_dataframe_columns from column i on: the groups
\* (merge_key, columns) of consecutive columns of equal merge key
RECURSIVE column_groups(_, _)
column_groups(column_list, i) ==
    IF i > Len(column_list) THEN <<>>
    ELSE LET merge_key == get_merge_key(column_list[i])
             differing == {j \in (i + 1)..Len(column_list) :
                              get_merge_key(column_list[j]) # merge_key}
             j == IF differing = {} THEN Len(column_list) + 1 ELSE Min(differing)
         IN  IF j - i > 1
             THEN <<[merge_key |-> merge_key, cols |-> [k \in 1..(j - i) |-> i + k - 1]]>>
                      \o column_groups(column_list, j)
             ELSE <<[merge_key |-> column_list[i], cols |-> <<i>>]>>
                      \o column_groups(column_list, i + 1)

\* the cell of a group in row r: the column itself, or its merged values
group_value(df, group, r) ==
    IF Len(group.cols) = 1 THEN str_value(at(df, r, df.columns[group.cols[1]]))
    ELSE merge_values([k \in DOMAIN group.cols |-> at(df, r, df.columns[group.cols[k]])])

\* merge_dataframe_columns: merged_data is a dict, the last group of a merge
\* key gives the column of every place the key has in column_order
merge_dataframe_columns(df) ==
    LET groups == column_groups(df.columns, 1)
        last_of(g) == Max({h \in DOMAIN groups : groups[h].merge_key = groups[g].merge_key})
    IN  DataFrame(
            [r \in DOMAIN df.data |->
                [g \in DOMAIN groups |-> group_value(df, groups[last_of(g)], r)]],
            [g \in DOMAIN groups |-> groups[g].merge_key],
            df.index)

startswith(text, prefix) ==
    Len(text) >= Len(prefix) /\ SubSeq(text, 1, Len(prefix)) = prefix

\* TableForEmbedding
TableForEmbedding(df, table_id) ==
    [table_id |-> table_id,
     column_names |-> SelectSeq(df.columns,
                         LAMBDA col : ~startswith(col, <<"e", "m", "p", "t", "y", "_", "c", "o", "l">>)),
     row_names |-> df.index]

-----------------------------------------------------------------------------
(* TableNode.__post_init__ as a state machine *)

\* most rows a modelled table has
MaxRows == 3

\* the other variables while a table is parsed
TableOnly ==
    /\ nodes = <<>>
    /\ element = None /\ node_type = None /\ extracted = <<>>
    /\ soup = <<>> /\ toc_items = <<>> /\ item_index = 0
    /\ current_element = None /\ raw_nodes = <<>>
    /\ chunking_config = DEFAULT_ITEM_CHUNKING_CONFIG
    /\ views = <<>> /\ chunks = <<>> /\ warnings = <<>>
    /\ document = <<>> /\ toc_table = <<>> /\ toc_links = <<>>
    /\ sec_filings = <<>> /\ state_docs = <<>> /\ all_docs = <<>>
    /\ filing_index = 0 /\ returned_docs = <<>>

\* a table of up to MaxRows rows out of a set of rows, before it is parsed
InitTable(row_set) ==
    /\ pc = "table"
    /\ html_table \in SeqsUpTo(row_set, MaxRows) \ {<<>>}
    /\ dataframe = EmptyDataFrame
    /\ merged_dataframe = EmptyDataFrame
    /\ table_metadata = <<>>
    /\ TableOnly

\* exploded_df = parse_html_table(table)
ParseHtmlTable ==
    /\ pc = "table"
    /\ dataframe' = parse_html_table(html_table)
    /\ pc' = "parsed"
    /\ UNCHANGED <<nodes, html_table, merged_dataframe, table_metadata,
                   chunker_vars, classifier_vars, parser_vars, toc_vars, graph_vars>>

\* self.dataframe = merge_dataframe_columns(exploded_df)
MergeDataframeColumns ==
    /\ pc = "parsed"
    /\ merged_dataframe' = merge_dataframe_columns(dataframe)
    /\ pc' = "merged"
    /\ UNCHANGED <<nodes, html_table, dataframe, table_metadata,
                   chunker_vars, classifier_vars, parser_vars, toc_vars, graph_vars>>

\* self.table_metadata = TableForEmbedding(df = self.dataframe, table_id = ...)
SetTableMetadata ==
    /\ pc = "merged"
    /\ table_metadata' = Some(TableForEmbedding(merged_dataframe, "table_1"))
    /\ pc' = "metadata"
    /\ UNCHANGED <<nodes, html_table, dataframe, merged_dataframe,
                   chunker_vars, classifier_vars, parser_vars, toc_vars, graph_vars>>

NextTable == ParseHtmlTable \/ MergeDataframeColumns \/ SetTableMetadata

\* Rows for the row names: a header of a blank corner and a year; rows titled
\* "A", "A (1)" and blank; a <tr> without cells; and a bold row titled "A"
RowNameRows ==
    {Row(TRUE, <<Cell(<<>>, 1), Cell(<<"2", "5">>, 1)>>),
     Row(FALSE, <<Cell(<<"A">>, 1), Cell(<<"x">>, 1)>>),
     Row(FALSE, <<Cell(<<"A", " ", "(", "1", ")">>, 1), Cell(<<"x">>, 1)>>),
     Row(FALSE, <<Cell(<<>>, 1), Cell(<<"x">>, 1)>>),
     Row(FALSE, <<>>),
     Row(TRUE, <<Cell(<<"A">>, 1), Cell(<<"x">>, 1)>>)}

InitRowNames == InitTable(RowNameRows)

SpecRowNames == InitRowNames /\ [][NextTable]_vars

\* the name the row at source index i is to have
RowNameAt(i) ==
    LET first == html_table[i + 1].cells[1].text
    IN  (IF first # <<>> THEN first ELSE <<"R", "o", "w", "_">> \o format_int(i))
            \o <<" ", "(">> \o format_int(i) \o <<")">>

\* the source indexes of the rows that have cells
WithCells == {i \in 0..(Len(html_table) - 1) : html_table[i + 1].cells # <<>>}

NoDuplicates(names) ==
    \A j, k \in DOMAIN names : names[j] = names[k] => j = k

\* C13 as claimed: the list of row names of every table reconstructed by
\* parse_html_table has no duplicates, and a row at source position k is named
\* '<first cell text> (k)', or 'Row_k (k)' when its first cell is blank.
C13_RowNames ==
    pc # "table" =>
        /\ NoDuplicates(dataframe.index)
        /\ \A j \in DOMAIN dataframe.index :
              \E i \in WithCells : dataframe.index[j] = RowNameAt(i)

\* the part of C13 on duplicates alone
RowNamesUnique == pc # "table" => NoDuplicates(dataframe.index)

\* Rows for the merging of columns: a header whose year spans two columns,
\* one with two adjacent empty cells, and rows of amounts
MergeRows ==
    {Row(TRUE, <<Cell(<<>>, 1), Cell(<<"2", "5">>, 2)>>),
     Row(TRUE, <<Cell(<<>>, 1), Cell(<<>>, 1), Cell(<<"2", "5">>, 1)>>),
     Row(FALSE, <<Cell(<<"A">>, 1), Cell(<<"$">>, 1), Cell(<<"5">>, 1)>>),
     Row(FALSE, <<Cell(<<"A">>, 1), Cell(<<>>, 1), Cell(<<"5">>, 1)>>),
     Row(FALSE, <<Cell(<<"B">>, 1), Cell(<<"7">>, 2)>>)}

InitMerge == InitTable(MergeRows)

SpecMerge == InitMerge /\ [][NextTable]_vars

\* a column name minus its last '__<index>' part
MergeKeyOf(name) ==
    LET at_sep == {i \in 1..(Len(name) - 1) : name[i] = "_" /\ name[i + 1] = "_"}
    IN  IF at_sep = {} THEN name ELSE SubSeq(name, 1, Max(at_sep) - 1)

\* the first columns of the maximal runs of columns of equal merge key
RunStarts(columns) ==
    {j \in DOMAIN columns :
        j = 1 \/ MergeKeyOf(columns[j]) # MergeKeyOf(columns[j - 1])}

\* the columns of the run that starts at column j
RunFrom(columns, j) ==
    LET later == {k \in RunStarts(columns) : k > j}
    IN  j..(IF later = {} THEN Len(columns) ELSE Min(later) - 1)

\* the non-empty cells of a row in the columns from j to k, concatenated
RECURSIVE Concatenated(_, _, _)
Concatenated(row, j, k) ==
    IF j > k THEN <<>> ELSE row[j] \o Concatenated(row, j + 1, k)

\* C14 as claimed: merge_dataframe_columns replaces every maximal run of two or
\* more consecutive columns of equal merge key by one column named by the key
\* whose value in each row is the concatenation, left to right and without
\* separator, of the non-empty cell strings of the run; a column in a run of
\* length one keeps name and values; column order and row index are kept.
C14_ColumnsMerged ==
    pc \in {"merged", "metadata"} =>
        LET starts == Ascending(RunStarts(dataframe.columns))
            run(g) == RunFrom(dataframe.columns, starts[g])
        IN  /\ merged_dataframe.index = dataframe.index
            /\ merged_dataframe.columns =
                   [g \in DOMAIN starts |->
                       IF Cardinality(run(g)) >= 2
                       THEN MergeKeyOf(dataframe.columns[starts[g]])
                       ELSE dataframe.columns[starts[g]]]
            /\ merged_dataframe.data =
                   [r \in DOMAIN dataframe.data |->
                       [g \in DOMAIN starts |->
                           Concatenated(dataframe.data[r], Min(run(g)), Max(run(g)))]]

-----------------------------------------------------------------------------
(* Scenario T2: a header of colspan-1 cells *)

\* most cells of the header row of scenario T2
T2MaxHeaderCells == 5

T2Texts ==
    {<<>>, <<"R", "e", "v", "e", "n", "u", "e">>, <<"2", "0", "2", "5">>, <<"2", "0", "2", "4">>}

\* header texts in which each non-empty text occurs once and no two empty
\* cells are adjacent
T2Headers ==
    {h \in SeqsUpTo(T2Texts, T2MaxHeaderCells) \ {<<>>} :
        /\ \A j, k \in DOMAIN h : (h[j] # <<>> /\ h[j] = h[k]) => j = k
        /\ \A j \in 1..(Len(h) - 1) : h[j] # <<>> \/ h[j + 1] # <<>>}

\* a table of such a header row (bold) and one row of amounts under it
T2Table(h) ==
    <<Row(TRUE, [k \in DOMAIN h |-> Cell(h[k], 1)]),
      Row(FALSE, [k \in DOMAIN h |-> Cell(IF k = 1 THEN <<"A">> ELSE <<"5">>, 1)])>>

InitT2 ==
    /\ pc = "table"
    /\ html_table \in {T2Table(h) : h \in T2Headers}
    /\ dataframe = EmptyDataFrame
    /\ merged_dataframe = EmptyDataFrame
    /\ table_metadata = <<>>
    /\ TableOnly

SpecT2 == InitT2 /\ [][NextTable]_vars

\* the texts of the header cells of the table
T2HeaderTexts == [k \in DOMAIN html_table[1].cells |-> html_table[1].cells[k].text]

\* the number of empty header cells before the k-th
EmptyBefore(k) == Cardinality({j \in 1..(k - 1) : T2HeaderTexts[j] = <<>>})

\* C15 as claimed: the merged grid columns are named by the bare cell text for
\* the non-empty header cells and 'empty_col__<g>' for the g-th empty strip,
\* and TableMetadata.column_names lists the non-empty header texts; e.g.
\* ["Revenue","","2025","","2024"] gives the columns ["Revenue","empty_col__0",
\* "2025","empty_col__1","2024"] and column_names ["Revenue","2025","2024"].
C15_T2ColumnNames ==
    /\ pc \in {"merged", "metadata"} =>
          merged_dataframe.columns =
              [k \in DOMAIN T2HeaderTexts |->
                  IF T2HeaderTexts[k] # <<>> THEN T2HeaderTexts[k]
                  ELSE <<"e", "m", "p", "t", "y", "_", "c", "o", "l", "_", "_">>
                           \o format_int(EmptyBefore(k))]
    /\ pc = "metadata" =>
          table_metadata[1].column_names =
              SelectSeq(T2HeaderTexts, LAMBDA text : text # <<>>)

(* index/parser/types.py: iterating a SemanticDocument *)

ThirdItem == "Item 1B"

DocumentItems == {FirstItem, SecondItem, ThirdItem}

\* Node lists of up to MaxNodes one-word nodes, every node in any of three
\* items: an item can come back after another one (Item 1, Item 1A, Item 1)
InitDocument ==
    /\ InitChunker
    /\ chunking_config = DEFAULT_ITEM_CHUNKING_CONFIG
    /\ \E n \in 0..MaxNodes :
          \E types \in [1..n -> ContentTypes], items \in [1..n -> DocumentItems] :
             nodes = [k \in 1..n |-> StructuralNode(k, types[k], 1, items[k], None)]

\* list(semantic_document): __iter__ run to its end over self._nodes
IterDocument ==
    /\ pc = "start"
    /\ views' = SemanticDocument(nodes)
    /\ pc' = "iterated"
    /\ UNCHANGED <<chunking_config, nodes, chunks, warnings, classifier_vars, parser_vars, other_vars>>

\* a second iteration of the same document (as get_item's "for item in self")
IterDocumentAgain ==
    /\ pc = "iterated"
    /\ views' = SemanticDocument(nodes)
    /\ pc' = "iterated again"
    /\ UNCHANGED <<chunking_config, nodes, chunks, warnings, classifier_vars, parser_vars, other_vars>>

NextDocument == IterDocument \/ IterDocumentAgain

SpecDocument == InitDocument /\ [][NextDocument]_vars

\* the node lists of the views, one after the other
ViewNodes == Flatten([v \in 1..Len(views) |-> views[v].nodes])

\* C16: every iteration of a SemanticDocument whose nodes all have a
\* parent_item yields non-empty views, whose nodes all carry the view's item,
\* whose consecutive items differ, and whose node lists concatenate to the
\* document's node list; a second iteration yields the same views.
C16_MaximalRuns ==
    pc \in {"iterated", "iterated again"} =>
       /\ \A v \in 1..Len(views) :
             /\ views[v].nodes # <<>>
             /\ \A k \in 1..Len(views[v].nodes) :
                   views[v].nodes[k].metadata.parent_item = views[v].item
       /\ \A v \in 1..(Len(views) - 1) : views[v].item # views[v + 1].item
       /\ ViewNodes = nodes

\* a document iterated twice whose first item comes back after another one
C16_Witness ==
    /\ pc = "iterated again"
    /\ Len(views) = 3
    /\ views[1].item = views[3].item
    /\ Len(nodes) = 3

-----------------------------------------------------------------------------
(* index/parser/parser.py: TenKParser._find_toc_table *)

\* An element of the soup is named by its path of child indexes from the
\* BeautifulSoup object, whose own path is <<>>.
RECURSIVE element_at(_, _)
element_at(el, path) ==
    IF path = <<>> THEN el ELSE element_at(el.children[Head(path)], Tail(path))

\* next_elements: the paths below el (itself at path) in document order
RECURSIVE paths_below(_, _)
paths_below(el, path) ==
    Flatten([k \in DOMAIN el.children |->
                <<Append(path, k)>> \o paths_below(el.children[k], Append(path, k))])

\* element.parent
parent_of(path) == SubSeq(path, 1, Len(path) - 1)

\* toc_pattern = r"table\s+of\s+contents", searched anywhere in a text
toc_pattern_search(text) ==
    \E i \in 1..(Len(text) - 2) :
        /\ text[i] = <<"Table", 0>>
        /\ text[i + 1] = <<"of", 0>>
        /\ text[i + 2] = <<"Contents", 0>>

\* item_pattern = r'Item\s+\d+[A-Z]?', matched at the start of a text
item_pattern_match(text) ==
    /\ Len(text) >= 2
    /\ text[1] = <<"Item", 0>>
    /\ text[2][1] = "digits"

\* the names at which the while loop over parent.parent stops
ParentNames == {"div", "span", "p", "h1", "h2", "h3", "h4", "h5", "h6"}

\* "while parent and parent.name not in [...]": the path the loop ends at,
\* None once it has gone past the BeautifulSoup object
RECURSIVE climb(_, _)
climb(doc, path) ==
    IF element_at(doc, path).name \in ParentNames THEN Some(path)
    ELSE IF path = <<>> THEN None
    ELSE climb(doc, parent_of(path))

\* Tag.find_next(name): the first element of that name after the start of the
\* element at path, its own descendants included
find_next(doc, path, name) ==
    LET order == paths_below(doc, <<>>)
        pos   == CHOOSE j \in DOMAIN order : order[j] = path
        later == {j \in DOMAIN order :
                     j > pos /\ element_at(doc, order[j]).name = name}
    IN  IF later = {} THEN None ELSE Some(order[Min(later)])

\* the first value of a list of Optionals that is not None
first_found(optionals) ==
    LET found == SelectSeq(optionals, LAMBDA o : o # None)
    IN  IF found = <<>> THEN None ELSE found[1]

\* Method 1: the texts matching toc_pattern, each one's parent climbed to a
\* ParentNames element, and the next table after that
method_1(doc) ==
    LET order == paths_below(doc, <<>>)
        texts == SelectSeq(order, LAMBDA q :
                    /\ ~isinstance_Tag(element_at(doc, q))
                    /\ toc_pattern_search(element_at(doc, q).string))
    IN  first_found([k \in DOMAIN texts |->
            LET parent == climb(doc, parent_of(texts[k]))
            IN  IF parent = None THEN None ELSE find_next(doc, parent[1], "table")])

\* Tag.string: the only string below a tag through only children
RECURSIVE dot_string(_)
dot_string(el) ==
    IF ~isinstance_Tag(el) THEN Some(el.string)
    ELSE IF Len(el.children) = 1 THEN dot_string(el.children[1])
    ELSE None

\* Method 2: the span, then div, then p elements whose string matches
method_2(doc) ==
    LET order == paths_below(doc, <<>>)
        toc_elements(tag_name) ==
            SelectSeq(order, LAMBDA q :
                /\ element_at(doc, q).name = tag_name
                /\ dot_string(element_at(doc, q)) # None
                /\ toc_pattern_search(dot_string(element_at(doc, q))[1]))
        elems == toc_elements("span") \o toc_elements("div") \o toc_elements("p")
    IN  first_found([k \in DOMAIN elems |-> find_next(doc, elems[k], "table")])

\* item_count of a table: its links whose stripped text matches item_pattern
item_count(table) ==
    Len(SelectSeq(find_all(table, {"a"}),
                  LAMBDA link : item_pattern_match(get_text(link))))

\* a comparison that lets a later table of the same count replace the best
is_better_or_equal(count, max_item_count) == count >= 5 /\ count >= max_item_count

\* "if item_count >= 5 and item_count > max_item_count"
is_better(count, max_item_count) == count >= 5 /\ count > max_item_count

\* Method 3: the loop over all_tables with its locals
RECURSIVE best_of(_, _, _, _)
best_of(doc, all_tables, best_table, max_item_count) ==
    IF all_tables = <<>> THEN best_table
    ELSE LET count == item_count(element_at(doc, Head(all_tables)))
         IN  IF is_better(count, max_item_count)
             THEN best_of(doc, Tail(all_tables), Some(Head(all_tables)), count)
             ELSE best_of(doc, Tail(all_tables), best_table, max_item_count)

method_3(doc) ==
    LET all_tables == SelectSeq(paths_below(doc, <<>>),
                                LAMBDA q : element_at(doc, q).name = "table")
    IN  best_of(doc, all_tables, None, 0)

\* _find_toc_table: the path of the table, or None
find_toc_table(doc) ==
    IF method_1(doc) # None THEN method_1(doc)
    ELSE IF method_2(doc) # None THEN method_2(doc)
    ELSE method_3(doc)

\* Number of top-level elements of the documents searched for a TOC table
MaxBlocks == 3

TocText == <<<<"Table", 0>>, <<"of", 0>>, <<"Contents", 0>>>>

\* <div>Table of Contents</div>
TocHeading == Tag("div", <<NavigableString(TocText)>>)

\* <b>Table of Contents</b>: no div, span, p or h1..h6 above the text
BareTocHeading == Tag("b", <<NavigableString(TocText)>>)

\* <a>Item k</a>
ItemLink(k) == Tag("a", <<NavigableString(<<<<"Item", 0>>, <<"digits", k>>>>)>>)

\* a table of one link that is not an Item link ("Part I") and n Item links
ItemTable(n) ==
    Tag("table", <<Tag("a", <<NavigableString(<<<<"word", 1>>>>)>>)>>
                 \o [k \in 1..n |-> ItemLink(k)])

\* <div><table>...</table>Table of Contents</div>: the text comes after a
\* table of the same div
TableBeforeTocText == Tag("div", <<ItemTable(4), NavigableString(TocText)>>)

TocBlocks ==
    {TocHeading, BareTocHeading, TableBeforeTocText,
     Tag("p", <<NavigableString(<<<<"word", 1>>>>)>>),
     ItemTable(4), ItemTable(5), ItemTable(6)}

\* the other variables while the TOC table is searched
TocOnly ==
    /\ nodes = <<>>
    /\ element = None /\ node_type = None /\ extracted = <<>>
    /\ soup = <<>> /\ toc_items = <<>> /\ item_index = 0
    /\ current_element = None /\ raw_nodes = <<>>
    /\ chunking_config = DEFAULT_ITEM_CHUNKING_CONFIG
    /\ views = <<>> /\ chunks = <<>> /\ warnings = <<>>
    /\ html_table = <<>> /\ dataframe = <<>>
    /\ merged_dataframe = <<>> /\ table_metadata = <<>>
    /\ sec_filings = <<>> /\ state_docs = <<>> /\ all_docs = <<>>
    /\ filing_index = 0 /\ returned_docs = <<>>

\* self.soup of a filing of up to MaxBlocks top-level elements
InitToc ==
    /\ pc = "_get_toc_items"
    /\ \E blocks \in SeqsUpTo(TocBlocks, MaxBlocks) :
          document = Tag("[document]", blocks)
    /\ toc_table = None
    /\ toc_links = <<>>
    /\ TocOnly

\* toc_table = self._find_toc_table()
FindTocTable ==
    /\ pc = "_get_toc_items"
    /\ toc_table' = find_toc_table(document)
    /\ pc' = "toc_table"
    /\ UNCHANGED <<nodes, document, toc_links, chunker_vars, classifier_vars,
                   parser_vars, table_vars, graph_vars>>

\* if toc_table is None: raise ValueError(...); nothing catches it up to
\* get_structured_nodes_stream, which returns no list
TocNotFound ==
    /\ pc = "toc_table"
    /\ toc_table = None
    /\ pc' = "ValueError"
    /\ UNCHANGED <<nodes, toc_vars, chunker_vars, classifier_vars,
                   parser_vars, table_vars, graph_vars>>

\* toc_links = toc_table.find_all("a"), kept as the links' stripped texts
FindTocLinks ==
    /\ pc = "toc_table"
    /\ toc_table # None
    /\ LET links == find_all(element_at(document, toc_table[1]), {"a"})
       IN  toc_links' = [k \in DOMAIN links |-> get_text(links[k])]
    /\ pc' = "toc_links"
    /\ UNCHANGED <<nodes, document, toc_table, chunker_vars, classifier_vars,
                   parser_vars, table_vars, graph_vars>>

NextToc == FindTocTable \/ TocNotFound \/ FindTocLinks

SpecToc == InitToc /\ [][NextToc]_vars

\* the paths of the elements of the document
DocPaths == Range(paths_below(document, <<>>))

IsPrefix(a, b) == Len(a) <= Len(b) /\ SubSeq(b, 1, Len(a)) = a

\* a starts before b in the document
Before(a, b) ==
    /\ a # b
    /\ \/ IsPrefix(a, b)
       \/ \E i \in 1..Min({Len(a), Len(b)}) :
             /\ SubSeq(a, 1, i - 1) = SubSeq(b, 1, i - 1)
             /\ a[i] < b[i]

TablePaths == {q \in DocPaths : element_at(document, q).name = "table"}

TocTextPaths ==
    {q \in DocPaths : /\ ~isinstance_Tag(element_at(document, q))
                      /\ toc_pattern_search(element_at(document, q).string)}

\* number of anchors below a table whose text matches the Item pattern
ItemAnchors(table) ==
    Cardinality({q \in DocPaths :
                    /\ IsPrefix(table, q) /\ q # table
                    /\ element_at(document, q).name = "a"
                    /\ item_pattern_match(get_text(element_at(document, q)))})

Qualifying == {t \in TablePaths : ItemAnchors(t) >= 5}

\* the div, span, p and h1..h6 elements above a text
AncestorsOf(text) ==
    {a \in DocPaths : /\ IsPrefix(a, text) /\ a # text
                      /\ element_at(document, a).name \in ParentNames}

\* some table starts after a "Table of Contents" text
TableFollowsTocText ==
    \E text \in TocTextPaths, t \in TablePaths : Before(text, t)

\* some table starts after the nearest div, span, p or h1..h6 above a
\* "Table of Contents" text
TableFollowsTocAncestor ==
    \E text \in TocTextPaths, t \in TablePaths :
        /\ AncestorsOf(text) # {}
        /\ \E a \in AncestorsOf(text) :
              /\ \A other \in AncestorsOf(text) : Len(other) <= Len(a)
              /\ Before(a, t)

TocSearched == pc \in {"toc_table", "ValueError", "toc_links"}

-----------------------------------------------------------------------------
(* index_graph/graph.py: chunk *)

\* Number of filings of the configurations the chunk step is run on
MaxFilings == 3

\* the classes of the exceptions TenKChunker(...) and get_chunks() end with in
\* the modelled runs; all three derive from Exception
ExceptionClasses == {"ValueError", "AttributeError", "ImportError"}

Raise(class) == [raised |-> TRUE, value |-> class]

\* a handler that takes a ValueError only
isinstance_ValueError(exception) == exception = "ValueError"

\* "except Exception as e"
isinstance_Exception(exception) == exception \in ExceptionClasses

\* "except ImportError as e"
isinstance_ImportError(exception) == exception = "ImportError"

\* the chunks of a filing: content and metadata name the filing and the order
FilingChunks(ticker, n) ==
    [k \in 1..n |-> [content |-> <<ticker, k>>,
                     metadata |-> [ticker |-> ticker, order |-> k]]]

\* A SecFiling, with what TenKChunker(ticker, year).get_chunks() does for it
SecFiling(ticker, outcome) == [ticker |-> ticker, year |-> 2024, get_chunks |-> outcome]

\* the filings of the configurations: get_chunks raises, or returns up to two
\* chunks
SecFilings ==
    UNION {{SecFiling(ticker, Raise(class)) : class \in ExceptionClasses}
           \cup {SecFiling(ticker, Return(FilingChunks(ticker, n))) : n \in 0..2} :
           ticker \in {"AAPL", "MSFT"}}

\* Document(page_content=chunk.content, metadata=chunk.metadata.model_dump())
Document(chunk) == [page_content |-> chunk.content, metadata |-> chunk.metadata]

\* state.docs or []
docs_or_empty(docs) == IF docs = None \/ docs[1] = <<>> THEN <<>> ELSE docs[1]

\* the other variables while the chunk step runs
GraphOnly ==
    /\ nodes = <<>>
    /\ element = None /\ node_type = None /\ extracted = <<>>
    /\ soup = <<>> /\ toc_items = <<>> /\ item_index = 0
    /\ current_element = None /\ raw_nodes = <<>>
    /\ chunking_config = DEFAULT_ITEM_CHUNKING_CONFIG
    /\ views = <<>> /\ chunks = <<>> /\ warnings = <<>>
    /\ html_table = <<>> /\ dataframe = <<>>
    /\ merged_dataframe = <<>> /\ table_metadata = <<>>
    /\ document = <<>> /\ toc_table = <<>> /\ toc_links = <<>>

\* The step is entered with a configuration of up to MaxFilings filings and a
\* state whose docs are None, empty or one earlier document
InitGraph ==
    /\ pc = "chunk"
    /\ sec_filings \in SeqsUpTo(SecFilings, MaxFilings)
    /\ state_docs \in {None, Some(<<>>),
                       Some(<<[page_content |-> <<"earlier", 1>>,
                               metadata |-> [ticker |-> "earlier", order |-> 1]]>>)}
    /\ all_docs = <<>>
    /\ filing_index = 0
    /\ returned_docs = None
    /\ GraphOnly

\* if not sec_filings: return {"docs": state.docs or []}
ReturnStateDocs ==
    /\ pc = "chunk"
    /\ sec_filings = <<>>
    /\ returned_docs' = Some(docs_or_empty(state_docs))
    /\ pc' = "returned"
    /\ UNCHANGED <<nodes, sec_filings, state_docs, all_docs, filing_index,
                   chunker_vars, classifier_vars, parser_vars, table_vars, toc_vars>>

\* all_docs = list(state.docs or []), and the for loop takes the first filing
StartFilings ==
    /\ pc = "chunk"
    /\ sec_filings # <<>>
    /\ all_docs' = docs_or_empty(state_docs)
    /\ filing_index' = 1
    /\ pc' = "filings"
    /\ UNCHANGED <<nodes, sec_filings, state_docs, returned_docs,
                   chunker_vars, classifier_vars, parser_vars, table_vars, toc_vars>>

\* One pass of "for filing in sec_filings": the chunks become Documents, or
\* the exception goes to the first handler that takes it
ProcessFiling ==
    /\ pc = "filings"
    /\ filing_index <= Len(sec_filings)
    /\ LET filing == sec_filings[filing_index]
           result == filing.get_chunks
       IN  IF ~result.raised
           THEN /\ all_docs' = all_docs \o
                       [k \in DOMAIN result.value |-> Document(result.value[k])]
                /\ filing_index' = filing_index + 1
                /\ UNCHANGED <<pc, returned_docs>>
           ELSE IF isinstance_Exception(result.value)
           THEN /\ filing_index' = filing_index + 1
                /\ UNCHANGED <<pc, all_docs, returned_docs>>
           ELSE IF isinstance_ImportError(result.value)
           THEN /\ returned_docs' = Some(docs_or_empty(state_docs))
                /\ pc' = "returned"
                /\ UNCHANGED <<all_docs, filing_index>>
           ELSE /\ pc' = "raised"
                /\ UNCHANGED <<all_docs, filing_index, returned_docs>>
    /\ UNCHANGED <<nodes, sec_filings, state_docs,
                   chunker_vars, classifier_vars, parser_vars, table_vars, toc_vars>>

\* return {"docs": all_docs}
ReturnAllDocs ==
    /\ pc = "filings"
    /\ filing_index > Len(sec_filings)
    /\ returned_docs' = Some(all_docs)
    /\ pc' = "returned"
    /\ UNCHANGED <<nodes, sec_filings, state_docs, all_docs, filing_index,
                   chunker_vars, classifier_vars, parser_vars, table_vars, toc_vars>>

NextGraph == ReturnStateDocs \/ StartFilings \/ ProcessFiling \/ ReturnAllDocs

SpecGraph == InitGraph /\ [][NextGraph]_vars

\* the documents the step had before
EarlierDocs == IF state_docs = None THEN <<>> ELSE state_docs[1]

\* one document per chunk of each of the first n filings that does not raise
DocsOfFilings(n) ==
    Flatten([f \in 1..n |->
        IF sec_filings[f].get_chunks.raised THEN <<>>
        ELSE [k \in DOMAIN sec_filings[f].get_chunks.value |->
                 [page_content |-> sec_filings[f].get_chunks.value[k].content,
                  metadata |-> sec_filings[f].get_chunks.value[k].metadata]]])

\* C18: whatever filings raise, the step does not end with an exception; while
\* it loops the collected documents are the earlier documents followed by one
\* document per chunk of the non-failing filings processed so far, and it
\* returns the earlier documents followed by one document per chunk of every
\* non-failing filing, in configuration order.
C18_BatchIsolation ==
    /\ pc # "raised"
    /\ pc = "filings" =>
          all_docs = EarlierDocs \o DocsOfFilings(filing_index - 1)
    /\ pc = "returned" =>
          returned_docs = Some(EarlierDocs \o DocsOfFilings(Len(sec_filings)))

\* the step has returned for three filings of which the second raised and the
\* other two gave chunks, with an earlier document in the state
C18_Witness ==
    /\ pc = "returned"
    /\ Len(sec_filings) = 3
    /\ sec_filings[2].get_chunks.raised
    /\ ~sec_filings[1].get_chunks.raised /\ sec_filings[1].get_chunks.value # <<>>
    /\ ~sec_filings[3].get_chunks.raised /\ sec_filings[3].get_chunks.value # <<>>
    /\ EarlierDocs # <<>>
    /\ Len(returned_docs[1]) = 1 + Len(sec_filings[1].get_chunks.value)
                                 + Len(sec_filings[3].get_chunks.value)

-----------------------------------------------------------------------------
(* index/parser/parser.py: the page numbers of the raw node stream *)

\* Number of nodes of the raw streams whose page numbers are filled in
MaxRawNodes == 4

\* The elements the raw streams are made of: a paragraph, a table, and the
\* footers of pages 7 and 8
PageCatalogue ==
    {Tag("div", <<NavigableString(Words)>>),
     Tag("div", <<Tag("table", <<NavigableString(Words)>>)>>),
     Tag("div", <<NavigableString(Footer(7))>>),
     Tag("div", <<NavigableString(Footer(8))>>)}

\* the other variables while the raw stream gets its metadata
RawOnly ==
    /\ nodes = <<>>
    /\ element = None /\ node_type = None /\ extracted = <<>>
    /\ soup = <<>> /\ toc_items = <<>> /\ item_index = 0
    /\ current_element = None
    /\ ChunkerIdle

\* nodes = self._get_structured_nodes() has returned the nodes of up to
\* MaxRawNodes sibling elements of one item, as the walk builds them
InitRaw ==
    /\ pc = "_get_structured_nodes"
    /\ \E elements \in SeqsUpTo(PageCatalogue, MaxRawNodes) :
          raw_nodes =
              [k \in DOMAIN elements |->
                  [element_to_structural_node(elements[k], <<k, k>>).value EXCEPT
                      !.metadata.parent_item = FirstItem,
                      !.metadata.item_anchor = Some("i1")]]
    /\ RawOnly

\* self._update_nodes_base_metadata(nodes)
UpdateNodesBaseMetadata ==
    /\ pc = "_get_structured_nodes"
    /\ raw_nodes' = update_nodes_base_metadata(raw_nodes)
    /\ pc' = "_update_nodes_base_metadata"
    /\ UNCHANGED <<nodes, soup, toc_items, item_index, current_element,
                   chunker_vars, classifier_vars, other_vars>>

\* self._update_nodes_metadata_page_number(nodes)
UpdateNodesMetadataPageNumber ==
    /\ pc = "_update_nodes_base_metadata"
    /\ raw_nodes' = update_nodes_metadata_page_number(raw_nodes)
    /\ pc' = "_update_nodes_metadata_page_number"
    /\ UNCHANGED <<nodes, soup, toc_items, item_index, current_element,
                   chunker_vars, classifier_vars, other_vars>>

NextRaw == UpdateNodesBaseMetadata \/ UpdateNodesMetadataPageNumber

SpecRaw == InitRaw /\ [][NextRaw]_vars

\* the positions from i on that hold a page footer
FootersFrom(i) ==
    {j \in i..Len(raw_nodes) : raw_nodes[j].node_type = "page_footer"}

\* the page number written in the footer element of the node at position j
ParsedPage(j) == extract_page_footer(raw_nodes[j].element)

\* C19: after _update_nodes_metadata_page_number every node that is no footer
\* carries the page number of the first footer at or after its position, and
\* none when no footer follows; every footer carries its own parsed number.
C19_PageBackfill ==
    pc = "_update_nodes_metadata_page_number" =>
       \A i \in DOMAIN raw_nodes :
          LET page == raw_nodes[i].metadata.page_number
          IN  IF raw_nodes[i].node_type = "page_footer"
              THEN page # None /\ page = ParsedPage(i)
              ELSE IF FootersFrom(i) = {} THEN page = None
              ELSE page # None /\ page = ParsedPage(Min(FootersFrom(i)))

\* a stream [text, footer of 7, footer of 8, text] after the back-fill
C19_Witness ==
    /\ pc = "_update_nodes_metadata_page_number"
    /\ Len(raw_nodes) = 4
    /\ raw_nodes[1].node_type = "text" /\ raw_nodes[1].metadata.page_number = Some(7)
    /\ raw_nodes[2].node_type = "page_footer" /\ raw_nodes[2].metadata.page_number = Some(7)
    /\ raw_nodes[3].node_type = "page_footer" /\ raw_nodes[3].metadata.page_number = Some(8)
    /\ raw_nodes[4].node_type = "text" /\ raw_nodes[4].metadata.page_number = None

-----------------------------------------------------------------------------
(* index/parser/parser.py: the end elements of the TOC items *)

\* the block of the table of contents, with the links of three items
TocBlock == Tag("div", <<ItemTable(3)>>)

\* the sibling elements after the table of contents: a paragraph in a <div>
\* and in a <p>, and a table
EndsCatalogue ==
    {Tag("div", <<NavigableString(Words)>>),
     Tag("p", <<NavigableString(Words)>>),
     Tag("div", <<Tag("table", <<NavigableString(Words)>>)>>)}

\* A document of the TOC block and further elements, up to MaxSiblings in
\* all, whose table of contents links three items; each anchor resolves to
\* one of the elements or to nothing.
InitEnds ==
    /\ pc = "toc"
    /\ \E rest \in SeqsUpTo(EndsCatalogue, MaxSiblings - 1) :
          soup = <<TocBlock>> \o rest
    /\ \E start1, start2, start3 \in {None} \cup {Some(k) : k \in 1..MaxSiblings} :
          /\ \A start \in {start1, start2, start3} :
                start # None => start[1] <= Len(soup)
          /\ toc_items = <<ItemTOCElement(FirstItem, Some("i1"), start1),
                           ItemTOCElement(SecondItem, Some("i1a"), start2),
                           ItemTOCElement(ThirdItem, Some("i1b"), start3)>>
    /\ item_index = 0
    /\ current_element = None
    /\ raw_nodes = <<>>
    /\ nodes = <<>>
    /\ element = None
    /\ node_type = None
    /\ extracted = <<>>
    /\ ChunkerIdle

SpecEnds == InitEnds /\ [][NextParse]_vars

\* the items after the i-th that have a start element
LaterStarted(i) == {j \in (i + 1)..Len(toc_items) : toc_items[j].start_el # None}

\* the element before the start element of the j-th item: its previous
\* sibling, or its parent when it is the first child
ElementBefore(j) ==
    LET start == toc_items[j].start_el[1]
    IN  IF start = 1 THEN Tag("body", soup) ELSE soup[start - 1]

\* the div, table and p elements of the document, in document order
Significant ==
    SelectSeq(descendants(Tag("body", soup)),
              LAMBDA el : el.name \in {"div", "table", "p"})

\* C20: after the second pass of _get_toc_items every item with a start
\* element ends before the start element of the nearest later item that has
\* one (at that element's previous sibling, or its parent without one), or at
\* the last div/table/p element of the document when no later item has a
\* start element; an item without start element has no end element.
C20_EndElements ==
    pc # "toc" =>
       \A i \in DOMAIN toc_items :
          IF toc_items[i].start_el = None THEN toc_items[i].end_el = None
          ELSE IF LaterStarted(i) # {}
          THEN toc_items[i].end_el = Some(ElementBefore(Min(LaterStarted(i))))
          ELSE /\ Significant # <<>>
               /\ toc_items[i].end_el = Some(Significant[Len(Significant)])

\* the second item has no start element and the first one ends before the
\* start of the third, which is not where the document ends
C20_Witness ==
    /\ pc # "toc"
    /\ toc_items[1].start_el # None
    /\ toc_items[2].start_el = None
    /\ toc_items[3].start_el # None
    /\ toc_items[2].end_el = None
    /\ toc_items[1].end_el = Some(ElementBefore(3))
    /\ toc_items[1].end_el # toc_items[3].end_el

\* the raw nodes stamped with the i-th item
RawNodesOf(i) ==
    SelectSeq(raw_nodes, LAMBDA node : node.metadata.parent_item = toc_items[i].item)

\* C21: a TOC item whose anchor resolves to no element raises nothing and
\* gives no node, neither in the raw stream nor in the returned one; the walk
\* goes on to the items after it, whose first node comes from their start
\* element, and the stream is returned.
C21_UnresolvedSkipped ==
    /\ pc # "ValueError"
    /\ \A i \in DOMAIN toc_items :
          toc_items[i].start_el = None =>
             /\ RawNodesOf(i) = <<>>
             /\ \A k \in DOMAIN nodes : nodes[k].metadata.parent_item # toc_items[i].item
    /\ pc = "done" =>
          /\ item_index = Len(toc_items)
          /\ \A j \in DOMAIN toc_items :
                (/\ toc_items[j].start_el # None
                 /\ soup[toc_items[j].start_el[1]] # toc_items[j].end_el[1]) =>
                   /\ RawNodesOf(j) # <<>>
                   /\ RawNodesOf(j)[1].element = soup[toc_items[j].start_el[1]]

\* the stream is returned for a TOC whose second item is unresolved, with raw
\* nodes of the first and of the third item
C21_Witness ==
    /\ pc = "done"
    /\ toc_items[2].start_el = None
    /\ RawNodesOf(1) # <<>>
    /\ RawNodesOf(2) = <<>>
    /\ RawNodesOf(3) # <<>>

\* the positions, among the siblings, of the elements the walk of the i-th
\* item made nodes of
VisitedBy(i) ==
    {RawNodesOf(i)[k].metadata.structural_node_id[2][2] : k \in DOMAIN RawNodesOf(i)}

StartOf(i) == toc_items[i].start_el[1]

\* the TOC items that have a start element start in document order, each
\* after the one before
StartsInOrder ==
    \A i, j \in DOMAIN toc_items :
        (i < j /\ toc_items[i].start_el # None /\ toc_items[j].start_el # None)
           => StartOf(i) < StartOf(j)

\* C22 as claimed: the walk of an item that is followed by a started item
\* visits exactly the siblings from its start element up to, but not
\* including, the end element (the sibling before the next started item's
\* start element); no node of an item comes from the next item's start
\* element or from an element after it, and no element gives nodes to two
\* items.
C22_ItemBoundaries ==
    pc = "done" =>
       /\ \A i \in DOMAIN toc_items :
             (toc_items[i].start_el # None /\ LaterStarted(i) # {}) =>
                LET next == StartOf(Min(LaterStarted(i)))
                IN  /\ StartOf(i) < next => VisitedBy(i) = StartOf(i)..(next - 2)
                    /\ \A position \in VisitedBy(i) : position < next
       /\ \A i, j \in DOMAIN toc_items :
             i # j => VisitedBy(i) \cap VisitedBy(j) = {}

\* C22, the part that holds when the started items start in document order:
\* the walk of an item never goes past the sibling before the next started
\* item's start element, and no element gives nodes to two items.
C22_NoOverrun ==
    (pc = "done" /\ StartsInOrder) =>
       /\ \A i \in DOMAIN toc_items :
             (toc_items[i].start_el # None /\ LaterStarted(i) # {}) =>
                \A position \in VisitedBy(i) :
                    position < StartOf(Min(LaterStarted(i))) - 1
       /\ \A i, j \in DOMAIN toc_items :
             i # j => VisitedBy(i) \cap VisitedBy(j) = {}

-----------------------------------------------------------------------------
(* index/chunker/chunker.py: what the chunks of an item are made of *)

\* the stream positions of the nodes a chunk contains (the k of node k's id)
Positions(i) == {id[2] : id \in IdsOf(i)}

\* the node a part of a content is cut from: every word and every min_text
\* token carries its node's position
PartNode(part) == part[1][1]

\* the parts of a content taken from nodes in front of, and behind, the
\* chunk's own nodes
PartsInFront(i) ==
    {p \in DOMAIN chunks[i].content :
        \A k \in Positions(i) : PartNode(chunks[i].content[p]) < k}

PartsBehind(i) ==
    {p \in DOMAIN chunks[i].content :
        \A k \in Positions(i) : PartNode(chunks[i].content[p]) > k}

\* every word of the part comes from a node the chunk j contains
CutFrom(part, j) == \A w \in DOMAIN part : part[w][1] \in Positions(j)

\* the ids of the contained nodes of a type
OwnMedia(i, type) == {id \in IdsOf(i) : NodeOf(id).node_type = type}

\* C23: a chunk has a before-overlap, cut from the chunk in front of it,
\* exactly when chunk_overlap_words > 0 and that chunk belongs to the same
\* item, and an after-overlap, cut from the chunk behind it, exactly when
\* chunk_overlap_words > 0 and that chunk belongs to the same item; so the
\* first chunk of an item has no before-overlap and the last no
\* after-overlap. No word and no reference of a chunk comes from a node of
\* another item, and with chunk_overlap_words = 0 the content is the texts of
\* the contained nodes and the references are the contained tables and images.
C23_OverlapWiring ==
    \A i \in DOMAIN chunks :
        LET content == chunks[i].content
            own == Parts([k \in DOMAIN Contained(chunks[i]) |-> Contained(chunks[i])[k].text])
        IN  /\ Cardinality(PartsInFront(i)) =
                  (IF Overlap > 0 /\ SameItem(i, i - 1) THEN 1 ELSE 0)
            /\ \A p \in PartsInFront(i) : p = 1 /\ CutFrom(content[p], i - 1)
            /\ Cardinality(PartsBehind(i)) =
                  (IF Overlap > 0 /\ SameItem(i, i + 1) THEN 1 ELSE 0)
            /\ \A p \in PartsBehind(i) : p = Len(content) /\ CutFrom(content[p], i + 1)
            /\ \A p \in DOMAIN content : \A w \in DOMAIN content[p] :
                  nodes[content[p][w][1]].metadata.parent_item = chunks[i].metadata.item
            /\ \A type \in {"table", "image"} : \A id \in References(chunks[i], type) :
                  NodeOf(id).metadata.parent_item = chunks[i].metadata.item
            /\ Overlap = 0 =>
                  /\ content = own
                  /\ \A type \in {"table", "image"} :
                        References(chunks[i], type) = OwnMedia(i, type)

\* The first chunk of an item with an after-overlap only, and the last chunk
\* of an item with a before-overlap only although a chunk of the next item
\* comes right behind it
C23_Witness ==
    /\ Overlap > 0
    /\ \E i \in DOMAIN chunks :
          /\ SameItem(i, i + 1) /\ ~SameItem(i, i - 1)
          /\ PartsInFront(i) = {} /\ PartsBehind(i) # {}
    /\ \E i \in DOMAIN chunks :
          /\ SameItem(i, i - 1) /\ i + 1 \in DOMAIN chunks /\ ~SameItem(i, i + 1)
          /\ PartsInFront(i) # {} /\ PartsBehind(i) = {}

\* Configurations with every min_chunk_size_words up to a budget of 3 words
MinConfigs ==
    {[min_chunk_size_words |-> min,
      max_chunk_size_words |-> 3,
      chunk_overlap_words  |-> 1] : min \in 0..3}

\* Streams of up to MaxNodes text nodes of 1 to 4 words, chunked under every
\* min_chunk_size_words
InitMin ==
    /\ InitChunker
    /\ chunking_config \in MinConfigs
    /\ \E n \in 0..MaxNodes :
          \E sizes \in [1..n -> 1..4], first \in 0..n :
             nodes = Stream(n, [k \in 1..n |-> <<"text", sizes[k]>>], first,
                            [k \in 1..n |-> None])

SpecMin == InitMin /\ [][Next]_vars

MinSize == chunking_config.min_chunk_size_words

\* C24 as claimed: a chunk whose core word count is below
\* min_chunk_size_words is the last chunk of its item.
C24_BelowMinOnlyLast ==
    \A i \in DOMAIN chunks :
        CoreSize(chunks[i]) < MinSize => ~SameItem(i, i + 1)

\* C24: min_chunk_size_words is not enforced. A chunk below it is emitted
\* wherever the next node of the item does not fit into it, in front of
\* further chunks of the item too, and no chunk is filled beyond
\* max_chunk_size_words to reach it.
C24_MinNotEnforced ==
    \A i \in DOMAIN chunks :
        /\ (CoreSize(chunks[i]) < MinSize /\ SameItem(i, i + 1)) =>
              CoreSize(chunks[i]) + WordCount(Contained(chunks[i + 1])[1]) > Budget
        /\ \/ CoreSize(chunks[i]) <= Budget
           \/ Len(chunks[i].metadata.structural_node_ids) = 1

\* a chunk below min_chunk_size_words in front of another chunk of its item
C24_Witness ==
    \E i \in DOMAIN chunks :
        /\ CoreSize(chunks[i]) < MinSize
        /\ SameItem(i, i + 1)

\* C25: for two consecutive chunks of one item, the core word count of the
\* earlier plus the word count of the first node of the later exceeds
\* max_chunk_size_words: a chunk ends only in front of a node that did not
\* fit into it.
C25_GreedyMaximal ==
    \A i \in DOMAIN chunks :
        SameItem(i, i + 1) =>
            CoreSize(chunks[i]) + WordCount(Contained(chunks[i + 1])[1]) > Budget

\* a chunk with room left in front of a chunk whose first node fits the
\* budget on its own, and a chunk of two nodes that fills the budget
C25_Witness ==
    /\ \E i \in DOMAIN chunks :
          /\ SameItem(i, i + 1)
          /\ CoreSize(chunks[i]) < Budget
          /\ WordCount(Contained(chunks[i + 1])[1]) <= Budget
    /\ \E i \in DOMAIN chunks :
          /\ Len(chunks[i].metadata.structural_node_ids) >= 2
          /\ CoreSize(chunks[i]) = Budget

\* the ids of the nodes of an item, in node order
NodeIdsOf(item) ==
    LET of_item == SelectSeq(nodes, LAMBDA n : n.metadata.parent_item = item)
    IN  [k \in DOMAIN of_item |-> of_item[k].metadata.structural_node_id]

\* the structural_node_ids of the chunks of an item, in chunk order
ChunkedIdsOf(item) ==
    LET of_item == SelectSeq(chunks, LAMBDA c : c.metadata.item = item)
    IN  Flatten([k \in DOMAIN of_item |-> of_item[k].metadata.structural_node_ids])

\* C26: no chunk is empty, and once the chunks are returned the
\* structural_node_ids of the chunks of an item, concatenated in chunk order,
\* are the ids of the item's nodes in node order, each one once; this is so
\* with and without overlaps.
C26_Partition ==
    /\ \A i \in DOMAIN chunks : chunks[i].metadata.structural_node_ids # <<>>
    /\ pc = "done" =>
          \A item \in {FirstItem, SecondItem} : ChunkedIdsOf(item) = NodeIdsOf(item)

\* three nodes of one item returned in two chunks that overlap
C26_Witness ==
    /\ pc = "done"
    /\ Overlap > 0
    /\ Len(nodes) = 3
    /\ Len(NodeIdsOf(FirstItem)) = 3
    /\ Len(chunks) = 2
    /\ Len(chunks[1].content) > Len(chunks[1].metadata.structural_node_ids)

-----------------------------------------------------------------------------
(* index/parser/types.py: the header labels of parse_html_table *)

\* Rows for the header labels: bold rows that repeat a text, that have two
\* separated and two adjacent empty cells, and that span columns; plain rows
\* that repeat a text and that do not
LabelRows ==
    {Row(TRUE, <<Cell(<<"A">>, 1), Cell(<<"A">>, 2)>>),
     Row(TRUE, <<Cell(<<>>, 1), Cell(<<"A">>, 1), Cell(<<>>, 1)>>),
     Row(TRUE, <<Cell(<<>>, 1), Cell(<<>>, 1), Cell(<<"A">>, 1)>>),
     Row(FALSE, <<Cell(<<"x">>, 1), Cell(<<"x">>, 1), Cell(<<"y">>, 1)>>),
     Row(FALSE, <<Cell(<<"x">>, 1), Cell(<<"y">>, 1), Cell(<<"z">>, 1)>>)}

InitLabels == InitTable(LabelRows)

SpecLabels == InitLabels /\ [][NextTable]_vars

\* the source index of the row parse_html_table selects as header: the first
\* header-like row, or row 0 when there is none
HeaderIdx ==
    LET like == {i \in 0..(Len(html_table) - 1) : is_header_row(html_table[i + 1])}
    IN  IF like = {} THEN 0 ELSE Min(like)

\* C27 as claimed: the expanded header labels of every table are pairwise
\* distinct.
C27_UniqueLabels ==
    pc = "parsed" => NoDuplicates(dataframe.columns)

\* the cells a row is to give: each cell's text in the first of its colspan
\* positions and '' in the others, the positions of the row name blanked
OwnText(i) ==
    LET row == html_table[i + 1]
        cells == expand_row(row, FALSE, None)
    IN  [j \in DOMAIN cells |-> IF j <= row.cells[1].colspan THEN <<>> ELSE cells[j]]

\* C28 as claimed: every row with cells other than the selected header row,
\* bold rows included, is emitted under its own name with each cell's text in
\* the first of its colspan positions and '' in the others.
C28_OwnText ==
    pc = "parsed" =>
        \A i \in WithCells \ {HeaderIdx} :
            \E j \in DOMAIN dataframe.index :
                /\ dataframe.index[j] = RowNameAt(i)
                /\ dataframe.data[j] = normalize(OwnText(i), Len(dataframe.columns))

\* the grid row parse_html_table builds of the row at source index i, and the
\* name and cells a data row taken from it has
GridRowOf(i) ==
    expand_row(html_table[i + 1], is_header_row(html_table[i + 1]),
               IF i = HeaderIdx
               THEN Some([k \in DOMAIN html_table[i + 1].cells |->
                             header_cell_info(html_table[i + 1].cells, k)])
               ELSE None)

NameFrom(i) ==
    (IF strip(GridRowOf(i)[1]) # <<>> THEN strip(GridRowOf(i)[1])
     ELSE <<"R", "o", "w", "_">> \o format_int(i))
        \o <<" ", "(">> \o format_int(i) \o <<")">>

CellsFrom(i) ==
    [j \in DOMAIN GridRowOf(i) |->
        IF j <= html_table[i + 1].cells[1].colspan THEN <<>> ELSE GridRowOf(i)[j]]

\* C29 as claimed: the column names of every table come from the row selected
\* as header, and every emitted row whose name ends in '(k)' has the name and
\* the cells of the source row at position k, also when the table has rows
\* without cells.
C29_RowsAligned ==
    (pc = "parsed" /\ dataframe # EmptyDataFrame) =>
        /\ dataframe.columns = GridRowOf(HeaderIdx)
        /\ \A j \in DOMAIN dataframe.index :
              \E i \in WithCells \ {HeaderIdx} :
                  /\ dataframe.index[j] = NameFrom(i)
                  /\ dataframe.data[j] = normalize(CellsFrom(i), Len(dataframe.columns))

-----------------------------------------------------------------------------
(* index/parser/parser.py: tables and images among the nodes of an element *)

\* the number of tags of a name an element holds, the element counted
CountIn(el, name) == (IF el.name = name THEN 1 ELSE 0) + CountBelow(el, name)

\* C30 as claimed: an element reached that is a <table> (an <img>) tag itself
\* is emitted as one table (image) node, as a wrapper around one is, and no
\* text or non_content node is made of an element that holds a table or an
\* image.
C30_TablesAndImages ==
    pc = "returned" =>
        /\ element[1].name = "table" =>
              Len(extracted) = 1 /\ extracted[1].node_type = "table"
        /\ element[1].name = "img" =>
              Len(extracted) = 1 /\ extracted[1].node_type = "image"
        /\ \A k \in DOMAIN extracted :
              extracted[k].node_type \in {"text", "non_content"} =>
                  /\ CountIn(extracted[k].element, "table") = 0
                  /\ CountIn(extracted[k].element, "img") = 0

=============================================================================
